---- MODULE Spec2Model ----
(***************************************************************************)
(* Feed ingestion and category normalisation of themen-suche, as written   *)
(* in src/helpers.py.  Spec is one call of get_all_articles; SpecFn is one  *)
(* call of extract_categories or of normalize_categories.                  *)
(*                                                                         *)
(* Text is modelled at character level: a Python str is a sequence of      *)
(* one-character strings, so that splitting, lower-casing and regular      *)
(* expression search are computed and not assumed.  Python's None is the   *)
(* one-element sequence None, which is no str of the modelled alphabet.    *)
(***************************************************************************)
EXTENDS Integers, Sequences, FiniteSets, TLC

VARIABLES
    fn,             \* pure functions: the function under call
    in_form,        \* pure functions: shape of the URL handed in
    in_segs,        \* pure functions: the path segments the URL was built from
    in_url,         \* pure functions: the url argument
    in_cats,        \* pure functions: the categories argument of normalize_categories
    fn_pc,          \* pure functions: which function has been applied
    out_cats,       \* pure functions: result of extract_categories(in_url)
    out_norm,       \* pure functions: result of normalize_categories(in_cats, in_url)
    in_arg,         \* pure functions: the arguments of the other functions, a record
    out_val,        \* pure functions: the value the other functions return
    feeds,          \* aggregator: FEEDS.items() with what each URL serves: [name, doc]
    idx,            \* aggregator: position of the for-loop over FEEDS.items()
    pc,             \* aggregator: position inside get_all_articles
    feed_type,      \* aggregator: local feed_type of the current iteration
    parsed,         \* aggregator: per source, the records its parser returned
    all_articles,   \* aggregator: local all_articles
    log_messages,   \* aggregator: local log_messages
    result,         \* aggregator: what the caller of get_all_articles receives
    server,         \* repeated calls: what each feed URL serves at the moment
    version,        \* repeated calls: how often the served contents have changed
    now,          \* repeated calls: time.time() in seconds
    cache,          \* repeated calls: the entries of st.cache_data, per function
    fetched,        \* repeated calls: per source, the responses fetched in this run
    run_from,       \* repeated calls: oldest contents version this run has used
    served,         \* repeated calls: what the calls so far have given the caller
    category_dropdown   \* add_feed: category_dropdown.options

fnVars == <<fn, in_form, in_segs, in_url, in_cats, fn_pc, out_cats, out_norm, in_arg, out_val>>
fnIn == <<fn, in_form, in_segs, in_url, in_cats, in_arg>>
aggVars == <<feeds, idx, pc, feed_type, parsed, all_articles, log_messages, result>>
runVars == <<server, version, now, cache, fetched, run_from, served>>
uiVars == <<category_dropdown>>
vars == <<fnVars, aggVars, runVars, uiVars>>

\* ------------------------------------------------------------------ bounds

MaxSegs == 3
MaxNormSegs == 1
MaxCats == 2
MaxAgainCats == 2
MaxVarSegs == 2
MaxVarCats == 1
MaxEntries == 2
MaxRunFeeds == 1
MaxChanges == 1
MaxCalls == 2
MaxTicks == 1
MaxRules == 2
MaxFeeds == 3

\* -------------------------------------------------------------------- text

None == <<"None">>

LowerLetters == <<"a", "b", "c", "d", "e", "f", "g", "h", "i", "j", "k", "l", "m", "n", "o", "p", "q", "r", "s", "t", "u", "v", "w", "x", "y", "z">>
UpperLetters == <<"A", "B", "C", "D", "E", "F", "G", "H", "I", "J", "K", "L", "M", "N", "O", "P", "Q", "R", "S", "T", "U", "V", "W", "X", "Y", "Z">>
Digits == {"0", "1", "2", "3", "4", "5", "6", "7", "8", "9"}

Range(s) == {s[i] : i \in DOMAIN s}

\* str.lower() on one character
LowerChar(c) ==
    IF \E i \in DOMAIN UpperLetters : UpperLetters[i] = c
    THEN LowerLetters[CHOOSE i \in DOMAIN UpperLetters : UpperLetters[i] = c]
    ELSE c

\* str.lower()
LowerStr(s) == [i \in DOMAIN s |-> LowerChar(s[i])]

\* the regular expression class \w
IsWordChar(c) == c \in Range(LowerLetters) \cup Range(UpperLetters) \cup Digits \cup {"_"}

\* str.find(c): the first index of a character of cs at or after from, Len(s)+1 if none
FindAny(s, cs, from) ==
    IF \E i \in from..Len(s) : s[i] \in cs
    THEN CHOOSE i \in from..Len(s) : s[i] \in cs /\ \A j \in from..(i - 1) : s[j] \notin cs
    ELSE Len(s) + 1

StartsWith(s, p) == Len(s) >= Len(p) /\ SubSeq(s, 1, Len(p)) = p

\* str.split('/'): every piece between separators, the empty ones included
RECURSIVE SplitSlash(_)
SplitSlash(s) ==
    LET i == FindAny(s, {"/"}, 1)
    IN  IF i > Len(s) THEN <<s>>
        ELSE <<SubSeq(s, 1, i - 1)>> \o SplitSlash(SubSeq(s, i + 1, Len(s)))

\* ------------------------------------------------------------ urllib.parse

SchemeChars == Range(LowerLetters) \cup Range(UpperLetters) \cup Digits \cup {"+", "-", "."}

\* urlsplit: url with a leading scheme: removed
AfterScheme(url) ==
    LET i == FindAny(url, {":"}, 1)
    IN  IF /\ i <= Len(url)
           /\ i > 1
           /\ url[1] \in Range(LowerLetters) \cup Range(UpperLetters)
           /\ \A j \in 1..(i - 1) : url[j] \in SchemeChars
        THEN SubSeq(url, i + 1, Len(url))
        ELSE url

\* urlparse(url): [raises, bytes, path]. None is coerced to the empty bytes result;
\* a netloc with an unbalanced bracket raises ValueError.
UrlParse(url) ==
    IF url = None THEN [raises |-> FALSE, bytes |-> TRUE, path |-> <<>>]
    ELSE
    LET rest == AfterScheme(url)
        hasNetloc == StartsWith(rest, <<"/", "/">>)
        delim == FindAny(rest, {"/", "?", "#"}, 3)
        netloc == IF hasNetloc THEN SubSeq(rest, 3, delim - 1) ELSE <<>>
        afterNetloc == IF hasNetloc THEN SubSeq(rest, delim, Len(rest)) ELSE rest
        noFragment == SubSeq(afterNetloc, 1, FindAny(afterNetloc, {"#"}, 1) - 1)
        noQuery == SubSeq(noFragment, 1, FindAny(noFragment, {"?"}, 1) - 1)
    IN  IF ("[" \in Range(netloc)) # ("]" \in Range(netloc))
        THEN [raises |-> TRUE, bytes |-> FALSE, path |-> <<>>]
        ELSE [raises |-> FALSE, bytes |-> FALSE, path |-> noQuery]

\* ----------------------------------------------------------- configuration

STATES_OF_GERMANY == <<
    <<"b", "a", "d", "e", "n", "-", "w", "u", "e", "r", "t", "t", "e", "m", "b", "e", "r", "g">>, <<"b", "a", "y", "e", "r", "n">>, <<"b", "e", "r", "l", "i", "n">>, <<"b", "r", "a", "n", "d", "e", "n", "b", "u", "r", "g">>, <<"b", "r", "e", "m", "e", "n">>,
    <<"h", "a", "m", "b", "u", "r", "g">>, <<"h", "e", "s", "s", "e", "n">>, <<"m", "e", "c", "k", "l", "e", "n", "b", "u", "r", "g", "-", "v", "o", "r", "p", "o", "m", "m", "e", "r", "n">>, <<"n", "i", "e", "d", "e", "r", "s", "a", "c", "h", "s", "e", "n">>,
    <<"n", "o", "r", "d", "r", "h", "e", "i", "n", "-", "w", "e", "s", "t", "f", "a", "l", "e", "n">>, <<"r", "h", "e", "i", "n", "l", "a", "n", "d", "-", "p", "f", "a", "l", "z">>, <<"s", "a", "a", "r", "l", "a", "n", "d">>, <<"s", "a", "c", "h", "s", "e", "n">>,
    <<"s", "a", "c", "h", "s", "e", "n", "-", "a", "n", "h", "a", "l", "t">>, <<"s", "c", "h", "l", "e", "s", "w", "i", "g", "-", "h", "o", "l", "s", "t", "e", "i", "n">>, <<"t", "h", "u", "e", "r", "i", "n", "g", "e", "n">> >>

BIGGEST_CITIES_GERMANY == <<
    <<"b", "e", "r", "l", "i", "n">>, <<"h", "a", "m", "b", "u", "r", "g">>, <<"m", "u", "e", "n", "c", "h", "e", "n">>, <<"k", "o", "e", "l", "n">>, <<"f", "r", "a", "n", "k", "f", "u", "r", "t">>, <<"s", "t", "u", "t", "t", "g", "a", "r", "t">>,
    <<"d", "o", "r", "t", "m", "u", "n", "d">>, <<"e", "s", "s", "e", "n">>, <<"d", "u", "e", "s", "s", "e", "l", "d", "o", "r", "f">>, <<"b", "r", "e", "m", "e", "n">> >>

COMPOUND_REGIONS == <<
    <<"b", "a", "d", "e", "n", "-", "w", "u", "e", "r", "t", "t", "e", "m", "b", "e", "r", "g">>, <<"m", "e", "c", "k", "l", "e", "n", "b", "u", "r", "g", "-", "v", "o", "r", "p", "o", "m", "m", "e", "r", "n">>, <<"n", "o", "r", "d", "r", "h", "e", "i", "n", "-", "w", "e", "s", "t", "f", "a", "l", "e", "n">>,
    <<"r", "h", "e", "i", "n", "l", "a", "n", "d", "-", "p", "f", "a", "l", "z">>, <<"s", "a", "c", "h", "s", "e", "n", "-", "a", "n", "h", "a", "l", "t">>, <<"s", "c", "h", "l", "e", "s", "w", "i", "g", "-", "h", "o", "l", "s", "t", "e", "i", "n">> >>

\* sorted(xs, key=len, reverse=True): stable, so equal lengths keep their order
RECURSIVE SortedByLenDesc(_)
SortedByLenDesc(xs) ==
    IF xs = <<>> THEN <<>>
    ELSE LET rest == SortedByLenDesc(Tail(xs))
             k == Cardinality({i \in DOMAIN rest : Len(rest[i]) > Len(Head(xs))})
         IN  SubSeq(rest, 1, k) \o <<Head(xs)>> \o SubSeq(rest, k + 1, Len(rest))

REGIONAL_LOCATIONS ==
    SortedByLenDesc(
        COMPOUND_REGIONS
        \o SelectSeq(STATES_OF_GERMANY, LAMBDA r : r \notin Range(COMPOUND_REGIONS))
        \o BIGGEST_CITIES_GERMANY)

\* NORMALIZATION_RULES.items(), in insertion order
NORMALIZATION_RULES == <<
    [key |-> <<"w", "i", "r", "t", "s", "c", "h", "a", "f", "t">>, synonyms |-> << <<"e", "c", "o", "n", "o", "m", "y">>, <<"w", "i", "r", "t", "s", "c", "h", "a", "f", "t">> >>],
    [key |-> <<"p", "o", "l", "i", "t", "i", "k">>, synonyms |-> << <<"p", "o", "l", "i", "t", "i", "c", "s">>, <<"p", "o", "l", "i", "t", "i", "k">> >>],
    [key |-> <<"a", "u", "s", "l", "a", "n", "d">>, synonyms |-> << <<"i", "n", "t", "e", "r", "n", "a", "t", "i", "o", "n", "a", "l">>, <<"a", "u", "s", "l", "a", "n", "d">> >>],
    [key |-> <<"s", "p", "o", "r", "t">>, synonyms |-> << <<"s", "p", "o", "r", "t", "s">>, <<"s", "p", "o", "r", "t">> >>],
    [key |-> <<"r", "e", "g", "i", "o", "n", "a", "l">>, synonyms |-> << <<"r", "e", "g", "i", "o", "n">>, <<"r", "e", "g", "i", "o", "n", "a", "l", "e", "s">>, <<"r", "e", "g", "i", "o", "n", "a", "l">> >>],
    [key |-> <<"n", "o", "r", "d", "r", "h", "e", "i", "n", "-", "w", "e", "s", "t", "f", "a", "l", "e", "n">>,
     synonyms |-> << <<"n", "o", "r", "d", "r", "h", "e", "i", "n", "-", "w", "e", "s", "t", "f", "a", "l", "e", "n">>, <<"n", "r", "w">>, <<"r", "u", "h", "r", "g", "e", "b", "i", "e", "t">> >>] >>

\* the literal prefixes of NON_CATEGORY_PATTERNS, each ^<prefix>\d+$
NON_CATEGORY_PATTERNS == <<
    <<"a", "r", "t", "i", "c", "l", "e">>, <<"p", "l", "u", "s">>, <<"a", "m", "p">>, <<"c", "o", "n", "t", "e", "n", "t">>, <<"r", "s", "s">>, <<"i", "d", "_">> >>

\* pattern.match(cat) for ^<prefix>\d+$
PatternMatch(prefix, cat) ==
    /\ StartsWith(cat, prefix)
    /\ Len(cat) > Len(prefix)
    /\ \A i \in (Len(prefix) + 1)..Len(cat) : cat[i] \in Digits

\* ------------------------------------------------------ extract_categories

\* extract_categories with parts[1:] written for parts[:-1]
ExtractCategoriesDropFirst(url) ==
    LET p == UrlParse(url)
        parts == SelectSeq(SplitSlash(p.path), LAMBDA part : part # <<>>)
        potential_categories == IF parts = <<>> THEN <<>> ELSE Tail(parts)
    IN  IF p.raises \/ p.bytes THEN <<>>
        ELSE SelectSeq(potential_categories,
                 LAMBDA cat : ~ \E i \in DOMAIN NON_CATEGORY_PATTERNS :
                                    PatternMatch(NON_CATEGORY_PATTERNS[i], cat))

\* extract_categories(url); any exception inside is caught and gives []
ExtractCategories(url) ==
    LET p == UrlParse(url)
        parts == SelectSeq(SplitSlash(p.path), LAMBDA part : part # <<>>)
        potential_categories == SubSeq(parts, 1, Len(parts) - 1)
    IN  IF p.raises \/ p.bytes THEN <<>>
        ELSE SelectSeq(potential_categories,
                 LAMBDA cat : ~ \E i \in DOMAIN NON_CATEGORY_PATTERNS :
                                    PatternMatch(NON_CATEGORY_PATTERNS[i], cat))

\* ---------------------------------------------------- normalize_categories

WordAt(s, i) == i \in DOMAIN s /\ IsWordChar(s[i])

\* re.search(rf'\b{re.escape(region)}\b', s)
SearchRegion(region, s) ==
    \E p \in 1..(Len(s) - Len(region) + 1) :
        /\ SubSeq(s, p, p + Len(region) - 1) = region
        /\ WordAt(s, p - 1) # WordAt(s, p)
        /\ WordAt(s, p + Len(region) - 1) # WordAt(s, p + Len(region))

\* the inner loop of step 1: the key of the first rule, from rule i on, whose
\* synonyms hold cat_lower; cat_lower itself when the loop ends unmatched
\* the inner loop without its break: the last rule holding the token wins
FoldInLast(rules, cat_lower, i) ==
    LET holding == {k \in i..Len(rules) :
                       \E j \in DOMAIN rules[k].synonyms :
                           LowerStr(rules[k].synonyms[j]) = cat_lower}
    IN  IF holding = {} THEN cat_lower
        ELSE rules[CHOOSE k \in holding : \A h \in holding : h <= k].key

\* the inner loop emitting the first synonym of the rule, not its key
FoldInFirstSynonym(rules, cat_lower, i) ==
    LET holding == {k \in i..Len(rules) :
                       \E j \in DOMAIN rules[k].synonyms :
                           LowerStr(rules[k].synonyms[j]) = cat_lower}
    IN  IF holding = {} THEN cat_lower
        ELSE rules[CHOOSE k \in holding : \A h \in holding : k <= h].synonyms[1]

\* the inner loop of step 1 over the items of a rule table, from rule i on:
\* the key of the first rule whose lower-cased synonyms hold the token, the
\* token itself when the loop ends without a match
RECURSIVE FoldIn(_, _, _)
FoldIn(rules, cat_lower, i) ==
    IF i > Len(rules) THEN cat_lower
    ELSE IF \E j \in DOMAIN rules[i].synonyms :
                LowerStr(rules[i].synonyms[j]) = cat_lower
         THEN rules[i].key
         ELSE FoldIn(rules, cat_lower, i + 1)

\* step 1 over a rule table: the loop over the categories
RECURSIVE FoldLoop(_, _, _)
FoldLoop(rules, normalized, categories) ==
    IF categories = <<>> THEN normalized
    ELSE FoldLoop(rules,
                  normalized \cup {FoldIn(rules, LowerStr(Head(categories)), 1)},
                  Tail(categories))

\* the inner loop of step 1 over NORMALIZATION_RULES
FoldFrom(cat_lower, i) == FoldIn(NORMALIZATION_RULES, cat_lower, i)

\* step 1 without the matched flag: the lower-cased token is added as well
StepOneKeepRaw(normalized, cat) ==
    normalized \cup {FoldFrom(LowerStr(cat), 1), LowerStr(cat)}

\* one iteration of step 1
StepOne(normalized, cat) == normalized \cup {FoldFrom(LowerStr(cat), 1)}

RECURSIVE StepOneLoop(_, _)
StepOneLoop(normalized, categories) ==
    IF categories = <<>> THEN normalized
    ELSE StepOneLoop(StepOne(normalized, Head(categories)), Tail(categories))

\* step 2 searching the URL path only
RegionTestPathOnly(region, url_path, categories) == SearchRegion(region, url_path)

\* the condition of step 2 for one region
RegionTest(region, url_path, categories) ==
    \/ SearchRegion(region, url_path)
    \/ \E i \in DOMAIN categories : SearchRegion(region, LowerStr(categories[i]))

\* step 2: the loop over REGIONAL_LOCATIONS from entry i on
RECURSIVE StepTwoLoop(_, _, _, _)
StepTwoLoop(specific_regions, i, url_path, categories) ==
    IF i > Len(REGIONAL_LOCATIONS) THEN specific_regions
    ELSE StepTwoLoop(
            IF RegionTest(REGIONAL_LOCATIONS[i], url_path, categories)
            THEN specific_regions \cup {REGIONAL_LOCATIONS[i]}
            ELSE specific_regions,
            i + 1, url_path, categories)

\* step 3 discarding "regional" once a region is found
StepThreeDropRegional(normalized, specific_regions) ==
    IF specific_regions # {}
    THEN (normalized \cup specific_regions) \ { <<"r", "e", "g", "i", "o", "n", "a", "l">> }
    ELSE normalized

\* step 3 of helpers.py: normalized.update(specific_regions)
StepThree(normalized, specific_regions) == normalized \cup specific_regions

\* normalize_categories raises: urlparse raises, or the path is bytes and
\* re.search is handed a bytes subject
NormalizeRaises(url) == UrlParse(url).raises \/ UrlParse(url).bytes

\* normalize_categories(categories, url), the returned list read as a set
NormalizeCategories(categories, url) ==
    LET normalized == StepOneLoop({}, categories)
        url_path == LowerStr(UrlParse(url).path)
        specific_regions == StepTwoLoop({}, 1, url_path, categories)
    IN  StepThree(normalized, specific_regions)

\* ------------------- normalize_categories of appV3.py and of bck/appv2.py

\* NORMALIZATION_RULES of appV3.py (normalization_rules of bck/appv2.py is
\* the same table); STATES_OF_GERMANY, BIGGEST_CITIES_GERMANY,
\* COMPOUND_REGIONS and REGIONAL_LOCATIONS are those of helpers.py
NORMALIZATION_RULES_V3 == <<
    [key |-> <<"w", "i", "r", "t", "s", "c", "h", "a", "f", "t">>, synonyms |-> << <<"e", "c", "o", "n", "o", "m", "y">>, <<"w", "i", "r", "t", "s", "c", "h", "a", "f", "t">> >>],
    [key |-> <<"p", "o", "l", "i", "t", "i", "k">>, synonyms |-> << <<"p", "o", "l", "i", "t", "i", "c", "s">>, <<"p", "o", "l", "i", "t", "i", "k">> >>],
    [key |-> <<"a", "u", "s", "l", "a", "n", "d">>, synonyms |-> << <<"i", "n", "t", "e", "r", "n", "a", "t", "i", "o", "n", "a", "l">>, <<"a", "u", "s", "l", "a", "n", "d">> >>],
    [key |-> <<"s", "p", "o", "r", "t">>, synonyms |-> << <<"s", "p", "o", "r", "t", "s">>, <<"s", "p", "o", "r", "t">> >>],
    [key |-> <<"r", "e", "g", "i", "o", "n", "a", "l">>, synonyms |-> << <<"r", "e", "g", "i", "o", "n">>, <<"r", "e", "g", "i", "o", "n", "a", "l", "e", "s">>, <<"r", "e", "g", "i", "o", "n", "a", "l">> >>] >>

\* urlparse(url).path.lower() without the .lower()
UrlPathRaw(url) == UrlParse(url).path

\* url_path = urlparse(url).path.lower()
UrlPathLower(url) == LowerStr(UrlParse(url).path)

\* the region name anywhere in the subject, no boundary asked for
SearchRegionSubstring(region, s) ==
    \E p \in 1..(Len(s) - Len(region) + 1) : SubSeq(s, p, p + Len(region) - 1) = region

\* the character class [\w-]
WordOrHyphenAt(s, i) == i \in DOMAIN s /\ (IsWordChar(s[i]) \/ s[i] = "-")

\* re.search(rf'(?<![\w-]){re.escape(region)}(?![\w-])', s)
SearchRegionV3(region, s) ==
    \E p \in 1..(Len(s) - Len(region) + 1) :
        /\ SubSeq(s, p, p + Len(region) - 1) = region
        /\ ~ WordOrHyphenAt(s, p - 1)
        /\ ~ WordOrHyphenAt(s, p + Len(region))

\* step 2 of appV3.py: the loop over REGIONAL_LOCATIONS from entry i on
RECURSIVE StepTwoLoopV3(_, _, _, _)
StepTwoLoopV3(specific_regions, i, url_path, categories) ==
    IF i > Len(REGIONAL_LOCATIONS) THEN specific_regions
    ELSE StepTwoLoopV3(
            IF \/ SearchRegionV3(REGIONAL_LOCATIONS[i], url_path)
               \/ \E k \in DOMAIN categories :
                     SearchRegionV3(REGIONAL_LOCATIONS[i], LowerStr(categories[k]))
            THEN specific_regions \cup {REGIONAL_LOCATIONS[i]}
            ELSE specific_regions,
            i + 1, url_path, categories)

\* step 3 without the discard
StepThreeKeepRegional(normalized, specific_regions) == normalized \cup specific_regions

\* step 3 of appV3.py and of bck/appv2.py
StepThreeV3(normalized, specific_regions) ==
    IF specific_regions # {}
    THEN (normalized \cup specific_regions) \ { <<"r", "e", "g", "i", "o", "n", "a", "l">> }
    ELSE normalized

\* normalize_categories(categories, url) of appV3.py, the list read as a set
NormalizeCategoriesV3(categories, url) ==
    LET normalized == FoldLoop(NORMALIZATION_RULES_V3, {}, categories)
        specific_regions == StepTwoLoopV3({}, 1, UrlPathLower(url), categories)
    IN  StepThreeV3(normalized, specific_regions)

\* a region is passed over when it is part of a name already matched
BckSkipConstituent(region, specific_regions) ==
    \E c \in specific_regions : SearchRegionSubstring(region, c)

\* bck/appv2.py: if region not in specific_regions
BckSkip(region, specific_regions) == region \in specific_regions

\* step 2 of bck/appv2.py, first loop: compound_regions from entry i on
RECURSIVE BckCompoundLoop(_, _, _, _)
BckCompoundLoop(specific_regions, i, url_path, categories) ==
    IF i > Len(COMPOUND_REGIONS) THEN specific_regions
    ELSE BckCompoundLoop(
            IF RegionTest(COMPOUND_REGIONS[i], url_path, categories)
            THEN specific_regions \cup {COMPOUND_REGIONS[i]}
            ELSE specific_regions,
            i + 1, url_path, categories)

\* step 2 of bck/appv2.py, second loop: states_of_germany +
\* biggest_cities_germany from entry i on
RECURSIVE BckOtherLoop(_, _, _, _)
BckOtherLoop(specific_regions, i, url_path, categories) ==
    LET others == STATES_OF_GERMANY \o BIGGEST_CITIES_GERMANY
    IN  IF i > Len(others) THEN specific_regions
        ELSE BckOtherLoop(
                IF /\ ~ BckSkip(others[i], specific_regions)
                   /\ RegionTest(others[i], url_path, categories)
                THEN specific_regions \cup {others[i]}
                ELSE specific_regions,
                i + 1, url_path, categories)

\* specific_regions of bck/appv2.py after both loops
RegionsBck(url_path, categories) ==
    BckOtherLoop(BckCompoundLoop({}, 1, url_path, categories), 1, url_path, categories)

\* ------------------------------------------------------------------- dates

DigitChars == <<"0", "1", "2", "3", "4", "5", "6", "7", "8", "9">>

DigitVal(c) == (CHOOSE i \in DOMAIN DigitChars : DigitChars[i] = c) - 1

IsDigits(s) == \A i \in DOMAIN s : s[i] \in Digits

\* int() of a string of digits
RECURSIVE ParseNat(_)
ParseNat(s) ==
    IF s = <<>> THEN 0
    ELSE ParseNat(SubSeq(s, 1, Len(s) - 1)) * 10 + DigitVal(s[Len(s)])

\* str.split(c)
RECURSIVE SplitOn(_, _)
SplitOn(s, c) ==
    LET cut == FindAny(s, {c}, 1)
    IN  IF cut > Len(s) THEN <<s>>
        ELSE <<SubSeq(s, 1, cut - 1)>> \o SplitOn(SubSeq(s, cut + 1, Len(s)), c)

\* date_str.replace("Z", "+00:00")
RECURSIVE ReplaceZ(_)
ReplaceZ(s) ==
    IF s = <<>> THEN <<>>
    ELSE (IF Head(s) = "Z" THEN <<"+", "0", "0", ":", "0", "0">> ELSE <<Head(s)>>) \o ReplaceZ(Tail(s))

\* a naive datetime
DateTime(year, month, day, hour, minute, second) ==
    [year |-> year, month |-> month, day |-> day,
     hour |-> hour, minute |-> minute, second |-> second]

IsLeap(year) == year % 4 = 0 /\ (year % 100 # 0 \/ year % 400 = 0)

DaysIn(year, month) ==
    IF month = 2 THEN (IF IsLeap(year) THEN 29 ELSE 28)
    ELSE IF month \in {4, 6, 9, 11} THEN 30 ELSE 31

\* hh:mm:ss of fromisoformat and %H:%M:%S of strptime: [ok, hour, minute, second]
ClockOf(s) ==
    LET parts == SplitOn(s, ":")
    IN  IF /\ Len(parts) = 3
           /\ \A i \in 1..3 : Len(parts[i]) \in {1, 2} /\ IsDigits(parts[i])
           /\ ParseNat(parts[1]) < 24
           /\ ParseNat(parts[2]) < 60
           /\ ParseNat(parts[3]) < 60
        THEN [ok |-> TRUE, hour |-> ParseNat(parts[1]),
              minute |-> ParseNat(parts[2]), second |-> ParseNat(parts[3])]
        ELSE [ok |-> FALSE, hour |-> 0, minute |-> 0, second |-> 0]

\* the UTC offset of fromisoformat, +HH:MM or -HH:MM: [ok, minutes]
OffsetOf(s) ==
    IF /\ Len(s) = 6
       /\ s[1] \in {"+", "-"}
       /\ IsDigits(SubSeq(s, 2, 3))
       /\ s[4] = ":"
       /\ IsDigits(SubSeq(s, 5, 6))
       /\ ParseNat(SubSeq(s, 2, 3)) < 24
       /\ ParseNat(SubSeq(s, 5, 6)) < 60
    THEN [ok |-> TRUE,
          minutes |-> (IF s[1] = "-" THEN -1 ELSE 1)
                      * (ParseNat(SubSeq(s, 2, 3)) * 60 + ParseNat(SubSeq(s, 5, 6)))]
    ELSE [ok |-> FALSE, minutes |-> 0]

NoDateTime == DateTime(0, 0, 0, 0, 0, 0)

\* datetime.fromisoformat on YYYY-MM-DD, optionally followed by a separator,
\* hh:mm:ss and an offset: [ok, aware, offset, dt]; not ok is ValueError
FromIsoFormat(s) ==
    LET bad == [ok |-> FALSE, aware |-> FALSE, offset |-> 0, dt |-> NoDateTime]
        year == ParseNat(SubSeq(s, 1, 4))
        month == ParseNat(SubSeq(s, 6, 7))
        day == ParseNat(SubSeq(s, 9, 10))
        rest == SubSeq(s, 12, Len(s))
        sign == FindAny(rest, {"+", "-"}, 1)
        clock == ClockOf(SubSeq(rest, 1, sign - 1))
        offset == OffsetOf(SubSeq(rest, sign, Len(rest)))
    IN  IF ~ /\ Len(s) >= 10
             /\ IsDigits(SubSeq(s, 1, 4)) /\ s[5] = "-"
             /\ IsDigits(SubSeq(s, 6, 7)) /\ s[8] = "-"
             /\ IsDigits(SubSeq(s, 9, 10))
        THEN bad
        ELSE IF ~ (year >= 1 /\ month \in 1..12 /\ day \in 1..DaysIn(year, month))
        THEN bad
        ELSE IF Len(s) = 10
        THEN [ok |-> TRUE, aware |-> FALSE, offset |-> 0,
              dt |-> DateTime(year, month, day, 0, 0, 0)]
        ELSE IF Len(s) = 11 \/ ~ clock.ok \/ (sign <= Len(rest) /\ ~ offset.ok)
        THEN bad
        ELSE [ok |-> TRUE, aware |-> sign <= Len(rest), offset |-> offset.minutes,
              dt |-> DateTime(year, month, day, clock.hour, clock.minute, clock.second)]

WeekdayNames == { <<"m", "o", "n">>, <<"t", "u", "e">>, <<"w", "e", "d">>, <<"t", "h", "u">>, <<"f", "r", "i">>, <<"s", "a", "t">>, <<"s", "u", "n">> }

MonthNames == << <<"j", "a", "n">>, <<"f", "e", "b">>, <<"m", "a", "r">>, <<"a", "p", "r">>, <<"m", "a", "y">>, <<"j", "u", "n">>,
                 <<"j", "u", "l">>, <<"a", "u", "g">>, <<"s", "e", "p">>, <<"o", "c", "t">>, <<"n", "o", "v">>, <<"d", "e", "c">> >>

\* the local time zone of the host: its offset from UTC in minutes and
\* time.tzname
HostUTC == [offset |-> 0, tzname |-> << <<"U", "T", "C">>, <<"U", "T", "C">> >>]
HostCET == [offset |-> 60, tzname |-> << <<"C", "E", "T">>, <<"C", "E", "S", "T">> >>]
Hosts == {HostUTC, HostCET}

\* datetime.strptime(date_str, "%a, %d %b %Y %H:%M:%S %Z"): [ok, dt], a naive
\* datetime; names match in any case, %Z matches utc, gmt and time.tzname;
\* not ok is ValueError
StrpTime(s, host) ==
    LET bad == [ok |-> FALSE, dt |-> NoDateTime]
        tok == SplitOn(s, " ")
        wd == LowerStr(tok[1])
        mon == LowerStr(tok[3])
        clock == ClockOf(tok[5])
        zones == { <<"u", "t", "c">>, <<"g", "m", "t">> } \cup {LowerStr(host.tzname[i]) : i \in 1..2}
        month == CHOOSE m \in DOMAIN MonthNames : MonthNames[m] = mon
        year == ParseNat(tok[4])
        day == ParseNat(tok[2])
    IN  IF Len(tok) # 6 THEN bad
        ELSE IF ~ /\ Len(wd) = 4 /\ SubSeq(wd, 1, 3) \in WeekdayNames /\ wd[4] = ","
                  /\ Len(tok[2]) \in {1, 2} /\ IsDigits(tok[2])
                  /\ mon \in Range(MonthNames)
                  /\ Len(tok[4]) = 4 /\ IsDigits(tok[4])
                  /\ clock.ok
                  /\ LowerStr(tok[6]) \in zones
        THEN bad
        ELSE IF ~ (year >= 1 /\ day \in 1..DaysIn(year, month))
        THEN bad
        ELSE [ok |-> TRUE,
              dt |-> DateTime(year, month, day, clock.hour, clock.minute, clock.second)]

\* the conversion left out: the wall-clock fields are kept as they are
KeepWallClock(dt, offset) == [overflow |-> FALSE, dt |-> dt]

\* .astimezone(timezone.utc).replace(tzinfo=None) of a datetime that is
\* offset minutes ahead of UTC: [overflow, dt]; overflow is OverflowError
AsTimezoneUtc(dt, offset) ==
    LET total == (dt.hour * 60 + dt.minute) - offset
        shift == IF total < 0 THEN -1 ELSE IF total >= 1440 THEN 1 ELSE 0
        mins == total - shift * 1440
        back == dt.day + shift = 0
        fwd == dt.day + shift > DaysIn(dt.year, dt.month)
        month == IF back THEN (IF dt.month = 1 THEN 12 ELSE dt.month - 1)
                 ELSE IF fwd THEN (IF dt.month = 12 THEN 1 ELSE dt.month + 1)
                 ELSE dt.month
        year == IF back /\ dt.month = 1 THEN dt.year - 1
                ELSE IF fwd /\ dt.month = 12 THEN dt.year + 1
                ELSE dt.year
        day == IF back THEN DaysIn(year, month) ELSE IF fwd THEN 1 ELSE dt.day + shift
    IN  IF year < 1 \/ year > 9999 THEN [overflow |-> TRUE, dt |-> NoDateTime]
        ELSE [overflow |-> FALSE,
              dt |-> DateTime(year, month, day, mins \div 60, mins % 60, dt.second)]

\* the value of a date parser: kind is "timestamp", "null" (None) or
\* "raises" (an exception leaves the function)
Parsed(kind, dt) == [kind |-> kind, dt |-> dt]

\* parse_datetime: the naive result of strptime is taken as local time
ParseDatetime(date_str, host) ==
    LET st == StrpTime(date_str, host)
        utc == AsTimezoneUtc(st.dt, host.offset)
    IN  IF ~ st.ok THEN Parsed("null", NoDateTime)
        ELSE IF utc.overflow THEN Parsed("raises", NoDateTime)
        ELSE Parsed("timestamp", utc.dt)

\* parse_iso_datetime: an aware datetime is converted by its own offset, a
\* naive one is taken as local time
ParseIsoDatetime(date_str, host) ==
    LET iso == FromIsoFormat(ReplaceZ(date_str))
        utc == AsTimezoneUtc(iso.dt, IF iso.aware THEN iso.offset ELSE host.offset)
    IN  IF ~ iso.ok THEN Parsed("null", NoDateTime)
        ELSE IF utc.overflow THEN Parsed("raises", NoDateTime)
        ELSE Parsed("timestamp", utc.dt)

\* ------------------------------------------------------- feed documents

\* an element or field that the document does not have
Absent == <<"Absent">>

U1 == <<"h", "t", "t", "p", ":", "/", "/", "a", ".", "d", "e", "/", "S", "p", "o", "r", "t", "/", "k", "o", "e", "l", "n", "/", "x">>
U2 == <<"/", "n", "r", "w", "/", "y">>

\* What a feed URL serves: fetch is "ok", "neterr" (the fetch fails and
\* feedparser reports it through bozo) or "raises" (the fetch fails and
\* feedparser.parse raises), xml is "wellformed" or
\* "malformed", root is "rss" or "urlset", items are the item/entry elements
\* (rss) or the url elements (urlset).  In an item, link is the
\* text of link/loc, None for an element without text, Absent without the
\* element; date is "valid", "missing", "malformed" (the parse raises
\* ValueError) or "overflow" (the conversion to UTC raises OverflowError).
\* Of an rss item, date is published/updated, tags are the terms of its
\* tags, title and description its texts.  Of a url element, news says
\* whether it has a news:news block, date, title and keywords are the texts
\* inside that block, lastmod is "valid" or "missing".
Doc(fetch, xml, root, items) ==
    [fetch |-> fetch, xml |-> xml, root |-> root, items |-> items]

Item(link, date) ==
    [link |-> link, date |-> date, news |-> TRUE, lastmod |-> "missing",
     title |-> Absent, tags |-> <<>>, keywords |-> Absent, description |-> Absent]

DocSet == {
    Doc("neterr", "wellformed", "rss", <<>>),
    Doc("ok", "malformed", "rss", <<Item(U1, "valid")>>),
    Doc("ok", "wellformed", "rss",
        <<Item(U2, "malformed"),
          [Item(U1, "valid") EXCEPT !.title = <<"T", "1">>, !.description = <<"d">>,
                                    !.tags = << <<"S", "p", "o", "r", "t">>, <<"K", "o", "e", "l", "n">> >>]>>),
    Doc("ok", "wellformed", "rss", <<Item(U2, "valid"), Item(Absent, "missing")>>),
    Doc("ok", "wellformed", "urlset", <<>>),
    Doc("ok", "wellformed", "urlset",
        <<[Item(U1, "valid") EXCEPT !.title = <<"T", "2">>, !.keywords = <<"S", "p", "o", "r", "t", ",", " ", "K", "o", "e", "l", "n", " ">>],
          [Item(U2, "missing") EXCEPT !.news = FALSE, !.lastmod = "valid"]>>),
    Doc("ok", "wellformed", "urlset", <<Item(U1, "malformed"), Item(Absent, "valid")>>),
    Doc("ok", "wellformed", "urlset", <<Item(U2, "valid"), Item(U1, "overflow")>>),
    Doc("ok", "wellformed", "urlset", <<Item(None, "valid")>>) }

\* feedparser.parse(feed_url): [raises, bozo, entries].  It reports a failed
\* fetch and malformed XML through bozo, keeps the entries it could read, and
\* finds no entries in a urlset; raises says that the call raised instead.
FeedParse(doc) ==
    [raises |-> doc.fetch = "raises",
     bozo |-> doc.fetch = "neterr" \/ doc.xml = "malformed",
     entries |-> IF doc.fetch = "ok" /\ doc.root = "rss" THEN doc.items ELSE <<>>]

\* -------------------------------------------------------- the Atom parser

\* what entry.find returns: [present, text, children]; present is FALSE
\* when find returns None
Element(text, children) == [present |-> TRUE, text |-> text, children |-> children]
NoElement == [present |-> FALSE, text |-> None, children |-> 0]

\* bool(element): an Element is true when it has child elements
Truthy(elem) == elem.present /\ elem.children > 0

\* a or b
Or(a, b) == IF Truthy(a) THEN a ELSE b

\* verarbeite_atom_entry of app.py: the publication_date of the record
AtomPublicationDate(published, updated, dc_date) ==
    LET pub_date == Or(Or(published, updated), dc_date)
    IN  IF pub_date.present THEN pub_date.text ELSE None

\* ------------------------------------------------------ determine_feed_type

\* the bozo test left out
DetermineFeedTypeNoBozo(doc) ==
    LET feed == FeedParse(doc)
    IN  IF feed.raises THEN "sitemap"
        ELSE IF Len(feed.entries) > 0 /\ feed.entries[1].link # Absent THEN "rss"
        ELSE "sitemap"

DetermineFeedType(doc) ==
    LET feed == FeedParse(doc)
    IN  IF feed.raises THEN "sitemap"
        ELSE IF feed.bozo THEN "sitemap"
        ELSE IF Len(feed.entries) > 0 /\ feed.entries[1].link # Absent THEN "rss"
        ELSE "sitemap"

\* ------------------------------------------------------------ the parsers

\* parse_datetime / parse_iso_datetime on the date of an item: ValueError is
\* caught and gives None ("null"); a missing date gives None as well
ParsedDate(date) == IF date = "valid" THEN "timestamp" ELSE "null"

\* the date conversion raises something that is no ValueError
DateRaises(date) == date = "overflow"

\* entry.get(key, ''), and the text of an element when it is there and not
\* empty
TextOr(text) == IF text \in {Absent, None} THEN <<>> ELSE text

\* str.strip()
RECURSIVE Strip(_)
Strip(s) ==
    IF s = <<>> THEN s
    ELSE IF Head(s) = " " THEN Strip(Tail(s))
    ELSE IF s[Len(s)] = " " THEN Strip(SubSeq(s, 1, Len(s) - 1))
    ELSE s

\* ', '.join(keywords)
RECURSIVE JoinComma(_)
JoinComma(keywords) ==
    IF keywords = <<>> THEN <<>>
    ELSE IF Len(keywords) = 1 THEN keywords[1]
    ELSE keywords[1] \o <<",", " ">> \o JoinComma(Tail(keywords))

\* extract_urls_from_rss: the loop over feed.entries
RECURSIVE RssLoop(_, _)
RssLoop(articles, entries) ==
    IF entries = <<>> THEN articles
    ELSE IF DateRaises(Head(entries).date) THEN articles
    ELSE RssLoop(
            Append(articles,
                   [link |-> IF Head(entries).link = Absent THEN <<>>
                             ELSE Head(entries).link,
                    title |-> TextOr(Head(entries).title),
                    description |-> TextOr(Head(entries).description),
                    keywords |-> Head(entries).tags,
                    publication_date |-> ParsedDate(Head(entries).date)]),
            Tail(entries))

ExtractUrlsFromRss(doc) == RssLoop(<<>>, FeedParse(doc).entries)

\* the text of news:news/news:publication_date of a url element
NewsDate(url) == IF url.news THEN url.date ELSE "missing"

\* extract_urls_from_sitemap: one iteration of the loop over the url elements
SitemapRecord(entries, url) ==
    LET text == IF url.news THEN TextOr(url.keywords) ELSE <<>>
        split == SplitOn(text, ",")
    IN  Append(entries,
           [loc |-> IF url.link = Absent THEN <<>> ELSE url.link,
            keywords |-> IF text = <<>> THEN <<>>
                         ELSE [i \in DOMAIN split |-> LowerStr(Strip(split[i]))],
            publication_date |-> ParsedDate(NewsDate(url)),
            news_title |-> IF url.news THEN TextOr(url.title) ELSE <<>>])

\* extract_urls_from_sitemap: the loop; an exception ends it and the except
\* clause returns the entries appended so far
RECURSIVE SitemapLoop(_, _)
SitemapLoop(entries, urls) ==
    IF urls = <<>> THEN entries
    ELSE IF DateRaises(NewsDate(Head(urls))) THEN entries
    ELSE SitemapLoop(SitemapRecord(entries, Head(urls)), Tail(urls))

\* extract_urls_from_sitemap: requests.get, raise_for_status and ET.fromstring
\* raise inside the try; a root without s:url children gives no iteration
ExtractUrlsFromSitemap(doc) ==
    IF doc.fetch # "ok" \/ doc.xml = "malformed" THEN <<>>
    ELSE IF doc.root # "urlset" THEN <<>>
    ELSE SitemapLoop(<<>>, doc.items)

\* --------------------------------------------------------- get_all_articles

\* the URL of a parsed record: article['link'] or entry['loc']
RecordUrl(rec) == IF "link" \in DOMAIN rec THEN rec.link ELSE rec.loc

\* a dictionary whose categories are derived from a URL other than the
\* record's own
RowOtherUrl(feed_name, rec) ==
    LET other == IF RecordUrl(rec) = U1 THEN U2 ELSE U1
    IN  [Feed |-> feed_name,
         URL |-> RecordUrl(rec),
         Title |-> IF "link" \in DOMAIN rec THEN rec.title ELSE rec.news_title,
         Keywords |-> JoinComma(rec.keywords),
         Publication_Date |-> rec.publication_date,
         Categories |-> ExtractCategories(other),
         Normalized_Categories |->
             NormalizeCategories(ExtractCategories(other), other)]

\* the dictionary appended to all_articles for one record
Row(feed_name, rec) ==
    [Feed |-> feed_name,
     URL |-> RecordUrl(rec),
     Title |-> IF "link" \in DOMAIN rec THEN rec.title ELSE rec.news_title,
     Keywords |-> IF "link" \in DOMAIN rec
                  THEN JoinComma(rec.keywords) \o <<",", " ">> \o rec.description
                  ELSE JoinComma(rec.keywords),
     Publication_Date |-> rec.publication_date,
     Categories |-> ExtractCategories(RecordUrl(rec)),
     Normalized_Categories |->
         NormalizeCategories(ExtractCategories(RecordUrl(rec)), RecordUrl(rec))]

\* the loop skipping a record whose URL an earlier row already has
AppendRowsDedup(rows, feed_name, recs) ==
    LET new == [i \in DOMAIN recs |-> Row(feed_name, recs[i])]
    IN  rows \o SelectSeq(new, LAMBDA r : \A j \in DOMAIN rows : rows[j].URL # r.URL)

\* the for-loop over the records of one source
AppendRows(rows, feed_name, recs) ==
    rows \o [i \in DOMAIN recs |-> Row(feed_name, recs[i])]

AggIdle ==
    /\ feeds = <<>>
    /\ idx = 0
    /\ pc = "idle"
    /\ feed_type = "none"
    /\ parsed = <<>>
    /\ all_articles = <<>>
    /\ log_messages = <<>>
    /\ result = [status |-> "none"]

UiIdle == category_dropdown = <<>>

RunIdle ==
    /\ server = <<>>
    /\ version = 0
    /\ now = 0
    /\ cache = <<>>
    /\ fetched = <<>>
    /\ run_from = 0
    /\ served = <<>>

FnIdle ==
    /\ fn = "none"
    /\ in_form = 0
    /\ in_segs = <<>>
    /\ in_url = <<>>
    /\ in_cats = <<>>
    /\ fn_pc = "idle"
    /\ out_cats = <<>>
    /\ out_norm = {}
    /\ in_arg = <<>>
    /\ out_val = <<>>

\* get_all_articles is called with FEEDS holding 1..MaxFeeds sources
Init ==
    /\ FnIdle
    /\ RunIdle
    /\ UiIdle
    /\ \E n \in 1..MaxFeeds : \E docs \in [1..n -> DocSet] :
          feeds = [i \in 1..n |-> [name |-> i, doc |-> docs[i]]]
    /\ idx = 1
    /\ pc = "detect"
    /\ feed_type = "none"
    /\ parsed = <<>>
    /\ all_articles = <<>>
    /\ log_messages = <<>>
    /\ result = [status |-> "none"]

\* lines 200-203: the next source, its type and its log line
Detect ==
    /\ pc = "detect"
    /\ idx <= Len(feeds)
    /\ feed_type' = DetermineFeedType(feeds[idx].doc)
    /\ log_messages' = Append(log_messages,
                              [feed |-> feeds[idx].name, type |-> feed_type'])
    /\ pc' = "parse"
    /\ UNCHANGED <<fnVars, runVars, uiVars, feeds, idx, parsed, all_articles, result>>

\* line 206
ParseRss ==
    /\ pc = "parse"
    /\ feed_type = "rss"
    /\ parsed' = Append(parsed, ExtractUrlsFromRss(feeds[idx].doc))
    /\ pc' = "rows"
    /\ UNCHANGED <<fnVars, runVars, uiVars, feeds, idx, feed_type, all_articles, log_messages, result>>

\* line 221
ParseSitemap ==
    /\ pc = "parse"
    /\ feed_type # "rss"
    /\ parsed' = Append(parsed, ExtractUrlsFromSitemap(feeds[idx].doc))
    /\ pc' = "rows"
    /\ UNCHANGED <<fnVars, runVars, uiVars, feeds, idx, feed_type, all_articles, log_messages, result>>

\* lines 207-219 and 222-234: one row per record; normalize_categories is
\* called outside any try, so what it raises leaves get_all_articles
BuildRows ==
    /\ pc = "rows"
    /\ IF \E i \in DOMAIN parsed[idx] : NormalizeRaises(RecordUrl(parsed[idx][i]))
       THEN /\ result' = [status |-> "raised"]
            /\ pc' = "done"
            /\ UNCHANGED <<idx, all_articles>>
       ELSE /\ all_articles' = AppendRows(all_articles, feeds[idx].name, parsed[idx])
            /\ idx' = idx + 1
            /\ pc' = "detect"
            /\ UNCHANGED result
    /\ UNCHANGED <<fnVars, runVars, uiVars, feeds, feed_type, parsed, log_messages>>

\* lines 236-238: pd.DataFrame(all_articles) has no columns when all_articles
\* is empty, and selecting the seven columns then raises KeyError
BuildFrame ==
    /\ pc = "detect"
    /\ idx > Len(feeds)
    /\ result' = IF all_articles = <<>> THEN [status |-> "raised"]
                 ELSE [status |-> "returned", rows |-> all_articles,
                       log |-> log_messages]
    /\ pc' = "done"
    /\ UNCHANGED <<fnVars, runVars, uiVars, feeds, idx, feed_type, parsed, all_articles, log_messages>>

Next == Detect \/ ParseRss \/ ParseSitemap \/ BuildRows \/ BuildFrame

Spec == Init /\ [][Next]_vars

\* ------------------------------------------------- repeated calls, caching

\* ttl of st.cache_data on the four cached functions, in seconds
TTL == 3600

\* the time that passes between two calls
Tick == TTL

\* an entry of st.cache_data: stored at time at (-1: no entry), computed from
\* contents of version ver
Entry(at, ver, value) == [at |-> at, ver |-> ver, value |-> value]

\* st.cache_data serves an entry younger than ttl
Valid(entry) == entry.at >= 0 /\ now - entry.at < TTL

\* what a feed URL can serve from one fetch to the next
RunDocs == {
    Doc("neterr", "wellformed", "rss", <<>>),
    Doc("ok", "wellformed", "rss", <<Item(U1, "valid")>>),
    Doc("ok", "wellformed", "urlset", <<Item(U2, "valid"), Item(U1, "overflow")>>) }

Min(a, b) == IF a <= b THEN a ELSE b

\* all_articles carried over from the call before
KeptArticles(old) == old

\* all_articles = [] at the start of get_all_articles
FreshArticles(old) == <<>>

\* a process with 1..MaxRunFeeds configured sources and nothing cached
InitRun ==
    /\ FnIdle
    /\ \E n \in 1..MaxRunFeeds : \E docs \in [1..n -> RunDocs] :
          /\ feeds = [i \in 1..n |-> [name |-> i, doc |-> docs[i]]]
          /\ server = docs
          /\ cache = [type |-> [i \in 1..n |-> Entry(-1, 0, "none")],
                      rss |-> [i \in 1..n |-> Entry(-1, 0, <<>>)],
                      sitemap |-> [i \in 1..n |-> Entry(-1, 0, <<>>)],
                      table |-> Entry(-1, 0, [status |-> "none"])]
          /\ fetched = [i \in 1..n |-> <<>>]
    /\ idx = 0
    /\ pc = "idle"
    /\ feed_type = "none"
    /\ parsed = <<>>
    /\ all_articles = <<>>
    /\ log_messages = <<>>
    /\ result = [status |-> "none"]
    /\ version = 0
    /\ now = 0
    /\ run_from = 0
    /\ served = <<>>
    /\ UiIdle

\* get_all_articles() is called and st.cache_data serves its stored value
CallCached ==
    /\ pc = "idle"
    /\ Len(served) < MaxCalls
    /\ Valid(cache.table)
    /\ served' = Append(served, [result |-> cache.table.value, cached |-> TRUE,
                                 vfrom |-> cache.table.ver, vto |-> version])
    /\ UNCHANGED <<fnVars, uiVars, aggVars, server, version, now, cache, fetched, run_from>>

\* get_all_articles() is called and its body starts (lines 197-198)
CallStart ==
    /\ pc = "idle"
    /\ Len(served) < MaxCalls
    /\ ~ Valid(cache.table)
    /\ all_articles' = FreshArticles(all_articles)
    /\ log_messages' = <<>>
    /\ parsed' = <<>>
    /\ idx' = 1
    /\ feed_type' = "none"
    /\ result' = [status |-> "none"]
    /\ fetched' = [i \in DOMAIN feeds |-> <<>>]
    /\ run_from' = version
    /\ pc' = "detect"
    /\ UNCHANGED <<fnVars, uiVars, feeds, server, version, now, cache, served>>

\* lines 201-203: determine_feed_type(feed_url) served from the cache, or run
\* on the response of its own fetch (feedparser.parse(feed_url), line 75)
RunDetect ==
    /\ pc = "detect"
    /\ idx <= Len(feeds)
    /\ IF Valid(cache.type[idx])
       THEN /\ feed_type' = cache.type[idx].value
            /\ run_from' = Min(run_from, cache.type[idx].ver)
            /\ UNCHANGED <<cache, fetched>>
       ELSE /\ feed_type' = DetermineFeedType(server[idx])
            /\ fetched' = [fetched EXCEPT ![idx] = Append(@, server[idx])]
            /\ cache' = [cache EXCEPT !.type[idx] = Entry(now, version, feed_type')]
            /\ UNCHANGED run_from
    /\ log_messages' = Append(log_messages,
                              [feed |-> feeds[idx].name, type |-> feed_type'])
    /\ pc' = "parse"
    /\ UNCHANGED <<fnVars, uiVars, feeds, idx, parsed, all_articles, result,
                   server, version, now, served>>

\* lines 206 and 221: the parser of the detected type served from the cache,
\* or run on the response of its own fetch (feedparser.parse(feed_url), line
\* 90; requests.get(feed_url), line 112)
RunParse ==
    /\ pc = "parse"
    /\ LET kind == IF feed_type = "rss" THEN "rss" ELSE "sitemap"
       IN  IF Valid(cache[kind][idx])
           THEN /\ parsed' = Append(parsed, cache[kind][idx].value)
                /\ run_from' = Min(run_from, cache[kind][idx].ver)
                /\ UNCHANGED <<cache, fetched>>
           ELSE /\ parsed' = Append(parsed,
                                    IF kind = "rss" THEN ExtractUrlsFromRss(server[idx])
                                    ELSE ExtractUrlsFromSitemap(server[idx]))
                /\ fetched' = [fetched EXCEPT ![idx] = Append(@, server[idx])]
                /\ cache' = [cache EXCEPT ![kind][idx] =
                                Entry(now, version, parsed'[Len(parsed')])]
                /\ UNCHANGED run_from
    /\ pc' = "rows"
    /\ UNCHANGED <<fnVars, uiVars, feeds, idx, feed_type, all_articles, log_messages, result,
                   server, version, now, served>>

\* get_all_articles returns or raises; st.cache_data stores a returned value
Return ==
    /\ pc = "done"
    /\ served' = Append(served, [result |-> result, cached |-> FALSE,
                                 vfrom |-> run_from, vto |-> version])
    /\ cache' = IF result.status = "returned"
                THEN [cache EXCEPT !.table = Entry(now, run_from, result)]
                ELSE cache
    /\ pc' = "idle"
    /\ UNCHANGED <<fnVars, uiVars, feeds, idx, feed_type, parsed, all_articles, log_messages,
                   result, server, version, now, fetched, run_from>>

\* a feed URL starts to serve something else: between two calls, or between
\* the fetch of determine_feed_type and the fetch of the parser
ServerChange ==
    /\ pc \in {"idle", "parse"}
    /\ version < MaxChanges
    /\ \E i \in DOMAIN server : \E doc \in RunDocs \ {server[i]} :
          server' = [server EXCEPT ![i] = doc]
    /\ version' = version + 1
    /\ UNCHANGED <<fnVars, uiVars, aggVars, now, cache, fetched, run_from, served>>

\* time passes between two calls
TimePasses ==
    /\ pc = "idle"
    /\ now < MaxTicks * Tick
    /\ now' = now + Tick
    /\ UNCHANGED <<fnVars, uiVars, aggVars, server, version, cache, fetched, run_from, served>>

NextRun ==
    \/ CallCached
    \/ CallStart
    \/ RunDetect
    \/ RunParse
    \/ BuildRows
    \/ BuildFrame
    \/ Return
    \/ ServerChange
    \/ TimePasses

SpecRun == InitRun /\ [][NextRun]_vars

\* ------------------------------------------------ claims on the aggregator

\* a source whose fetch fails, whose XML is malformed, or whose parser meets
\* an exception in one of its items
FailingSource(doc) ==
    \/ doc.fetch # "ok"
    \/ doc.xml = "malformed"
    \/ \E i \in DOMAIN doc.items : DateRaises(doc.items[i].date)

\* C1: when some of the configured sources fail, get_all_articles returns,
\* its rows come from the sources that did not fail, and its log has one
\* entry per configured source.
C1_PartialFailure ==
    (pc = "done" /\ \E i \in DOMAIN feeds : FailingSource(feeds[i].doc)) =>
        /\ result.status = "returned"
        /\ \A k \in DOMAIN result.rows : ~ FailingSource(feeds[result.rows[k].Feed].doc)
        /\ Len(result.log) = Len(feeds)

\* C2: get_all_articles never raises; it always returns a (rows, log) pair.
C2_NeverRaises == pc = "done" => result.status = "returned"

\* the rows the records of sources i..Len(parsed) stand for, source by source
RECURSIVE RecordsInSourceOrder(_)
RecordsInSourceOrder(i) ==
    IF i > Len(parsed) THEN <<>>
    ELSE [k \in DOMAIN parsed[i] |->
             [Feed |-> feeds[i].name, URL |-> RecordUrl(parsed[i][k])]]
         \o RecordsInSourceOrder(i + 1)

FeedAndUrl(rows) == [k \in DOMAIN rows |-> [Feed |-> rows[k].Feed, URL |-> rows[k].URL]]

\* C3: the returned rows are the parsed records of the sources, concatenated
\* in source order and in parser order, each under the name of its source;
\* none is dropped, merged or moved, also when two sources give the same URL.
C3_RowsAreConcatenation ==
    /\ pc = "detect" => FeedAndUrl(all_articles) = RecordsInSourceOrder(1)
    /\ result.status = "returned" =>
          FeedAndUrl(result.rows) = RecordsInSourceOrder(1)

\* C3 witness: two sources gave the same URL and both rows are returned,
\* the earlier source's first
C3_Witness ==
    /\ result.status = "returned"
    /\ \E j, k \in DOMAIN result.rows :
          /\ j < k
          /\ result.rows[j].URL = result.rows[k].URL
          /\ result.rows[j].Feed < result.rows[k].Feed
    /\ Len(result.rows) >= 3

\* C9: a well-formed urlset gives one record per url element that has a loc
\* and none for a url element without.
C9_OneRecordPerLoc ==
    \A i \in DOMAIN parsed :
        LET doc == feeds[i].doc
        IN  (doc.fetch = "ok" /\ doc.xml = "wellformed" /\ doc.root = "urlset") =>
                Len(parsed[i]) =
                    Cardinality({k \in DOMAIN doc.items : doc.items[k].link # Absent})

\* C10: every record a parser keeps has a link, so no returned row has an
\* empty or absent URL.
C10_LinkPresent ==
    /\ \A i \in DOMAIN parsed : \A k \in DOMAIN parsed[i] :
          RecordUrl(parsed[i][k]) \notin {<<>>, None}
    /\ result.status = "returned" =>
          \A k \in DOMAIN result.rows : result.rows[k].URL \notin {<<>>, None}

\* ------------------------------------------------- inputs of the functions

\* path segments the URLs handed to extract_categories are built from; boiler
\* says whether the segment is one of article<digits>, plus<digits>,
\* amp<digits>, content<digits>, rss<digits>, id_<digits>
SegVocab == {
    [s |-> <<>>, boiler |-> FALSE],
    [s |-> <<"P", "o", "l", "i", "t", "i", "k">>, boiler |-> FALSE],
    [s |-> <<"a", "r", "t", "i", "c", "l", "e", "1", "2", "3">>, boiler |-> TRUE],
    [s |-> <<"p", "l", "u", "s", "9">>, boiler |-> TRUE],
    [s |-> <<"a", "m", "p", "1">>, boiler |-> TRUE],
    [s |-> <<"c", "o", "n", "t", "e", "n", "t", "2", "2">>, boiler |-> TRUE],
    [s |-> <<"r", "s", "s", "5">>, boiler |-> TRUE],
    [s |-> <<"i", "d", "_", "7">>, boiler |-> TRUE],
    [s |-> <<"a", "r", "t", "i", "c", "l", "e", "1", "2", "x">>, boiler |-> FALSE],
    [s |-> <<"A", "r", "t", "i", "c", "l", "e", "1">>, boiler |-> FALSE] }

\* path segments of the URLs handed to normalize_categories
NormSegVocab == {
    [s |-> <<"S", "a", "c", "h", "s", "e", "n", "-", "A", "n", "h", "a", "l", "t">>, boiler |-> FALSE],
    [s |-> <<"n", "i", "e", "d", "e", "r", "s", "a", "c", "h", "s", "e", "n">>, boiler |-> FALSE],
    [s |-> <<"n", "e", "w", "s", ".", "h", "t", "m", "l">>, boiler |-> FALSE] }

\* raw category tokens handed to normalize_categories
TokVocab == {
    <<"E", "c", "o", "n", "o", "m", "y">>, <<"r", "e", "g", "i", "o", "n", "a", "l">>, <<"H", "a", "m", "b", "u", "r", "g", "-", "n", "e", "w", "s">>, <<"N", "R", "W">>, <<"n", "e", "w", "s">> }

\* the arguments of the call that is repeated on its own result
AgainSegVocab == {seg \in NormSegVocab : seg.s # <<"n", "i", "e", "d", "e", "r", "s", "a", "c", "h", "s", "e", "n">>}
AgainTokVocab == { <<"N", "R", "W">>, <<"H", "a", "m", "b", "u", "r", "g", "-", "n", "e", "w", "s">> }

SeqsUpTo(S, n) == UNION {[1..k -> S] : k \in 0..n}

\* path segments and raw tokens of the calls that compare the variants of
\* normalize_categories
VarSegVocab == {
    [s |-> <<"S", "a", "c", "h", "s", "e", "n", "-", "A", "n", "h", "a", "l", "t">>, boiler |-> FALSE],
    [s |-> <<"R", "e", "g", "i", "o", "n", "a", "l">>, boiler |-> FALSE],
    [s |-> <<"k", "o", "e", "l", "n">>, boiler |-> FALSE],
    [s |-> <<"h", "a", "m", "b", "u", "r", "g", "-", "n", "e", "w", "s">>, boiler |-> FALSE] }
VarTokVocab == { <<"R", "e", "g", "i", "o", "n">>, <<"H", "a", "m", "b", "u", "r", "g">>, <<"E", "s", "s", "e", "n", "-", "N", "o", "r", "d">> }

RECURSIVE JoinSlash(_)
JoinSlash(segs) ==
    IF segs = <<>> THEN <<>> ELSE <<"/">> \o Head(segs).s \o JoinSlash(Tail(segs))

\* form 1: absolute, with a host, a query and a fragment that name regions;
\* form 2: a bare path (one that starts with // would name a host instead)
UrlOf(form, segs) ==
    IF form = 1
    THEN <<"h", "t", "t", "p", "s", ":", "/", "/", "b", "r", "e", "m", "e", "n", ".", "d", "e">> \o JoinSlash(segs) \o <<"?", "q", "=", "/", "h", "a", "m", "b", "u", "r", "g", "/", "#", "/", "e", "s", "s", "e", "n", "/">>
    ELSE JoinSlash(segs)

\* the entries of the documents handed to determine_feed_type
DetectItems == {Item(U1, "valid"), Item(Absent, "valid")}

\* the documents handed to determine_feed_type
DetectDocs ==
    {Doc(f, x, r, items) : f \in {"ok", "neterr", "raises"},
                           x \in {"wellformed", "malformed"},
                           r \in {"rss", "urlset"},
                           items \in SeqsUpTo(DetectItems, MaxEntries)}

\* extract_categories and normalize_categories are called with a URL
InitUrlFn ==
    /\ in_form \in {1, 2}
    /\ \/ /\ fn = "extract_categories"
          /\ in_segs \in SeqsUpTo(SegVocab, MaxSegs)
          /\ in_cats = <<>>
       \/ /\ fn = "normalize_categories"
          /\ in_segs \in SeqsUpTo(NormSegVocab, MaxNormSegs)
          /\ in_cats \in SeqsUpTo(TokVocab, MaxCats)
       \/ /\ fn = "normalize_again"
          /\ in_segs \in {<<>>} \cup {<<seg>> : seg \in AgainSegVocab}
          /\ in_cats \in SeqsUpTo(AgainTokVocab, MaxAgainCats)
       \/ /\ fn = "normalize_variants"
          /\ in_segs \in SeqsUpTo(VarSegVocab, MaxVarSegs)
          /\ in_cats \in {ExtractCategories(UrlOf(in_form, in_segs))}
                             \cup SeqsUpTo(VarTokVocab, MaxVarCats)
    /\ (in_form = 2 /\ Len(in_segs) > 0) => in_segs[1].s # <<>>
    /\ in_url = UrlOf(in_form, in_segs)
    /\ in_arg = <<>>

\* rule tables for step 1: dict keys are distinct, the synonym lists overlap
KeyNames == << <<"k", "1">>, <<"k", "2">>, <<"k", "3">>, <<"k", "4">> >>
SynLists == { << <<"x">> >>, << <<"Y">> >>, << <<"x">>, <<"Y">> >> }
RuleTables ==
    UNION {{[i \in 1..n |-> [key |-> KeyNames[i], synonyms |-> syn[i]]] :
                syn \in [1..n -> SynLists]} : n \in 1..MaxRules}
FoldToks == { <<"X">>, <<"y">>, <<"z">> }

\* %d and %H of a date string
TwoDigits(n) == <<DigitChars[(n \div 10) + 1], DigitChars[(n % 10) + 1]>>

\* strings handed to parse_datetime: [text, exact, wall]; exact says that the
\* text is '<weekday>, <day> <month> <year> <HH:MM:SS> GMT', wall is the
\* wall-clock time it names
RfcInputs ==
    {[text |-> wd \o <<"0", "2", " ", "J", "a", "n", " ", "2", "0", "2", "3", " ">> \o TwoDigits(h) \o <<":", "0", "0", ":", "0", "0", " ">> \o z,
      exact |-> wd # <<>> /\ z = <<"G", "M", "T">>,
      wall |-> DateTime(2023, 1, 2, h, 0, 0)] :
        wd \in { <<"M", "o", "n", ",", " ">>, <<>> }, h \in {0, 10}, z \in { <<"G", "M", "T">>, <<"C", "E", "T">>, <<"+", "0", "1", "0", "0">> }}
    \cup {[text |-> <<"2", "0", "2", "3", "-", "0", "1", "-", "0", "2", "T", "1", "0", ":", "0", "0", ":", "0", "0", "Z">>, exact |-> FALSE, wall |-> NoDateTime],
          [text |-> <<>>, exact |-> FALSE, wall |-> NoDateTime]}

\* the zone designators of the ISO strings: [text, explicit, minutes]
IsoZones == {
    [text |-> <<"Z">>, explicit |-> TRUE, minutes |-> 0],
    [text |-> <<"+", "0", "0", ":", "0", "0">>, explicit |-> TRUE, minutes |-> 0],
    [text |-> <<"+", "0", "1", ":", "0", "0">>, explicit |-> TRUE, minutes |-> 60],
    [text |-> <<>>, explicit |-> FALSE, minutes |-> 0] }

\* strings handed to parse_iso_datetime: [text, day, hour, zone]; day 0 marks
\* a string that names no instant of January 2023
IsoInputs ==
    {[text |-> <<"2", "0", "2", "3", "-", "0", "1", "-">> \o TwoDigits(d) \o <<"T">> \o TwoDigits(h) \o <<":", "0", "0", ":", "0", "0">> \o z.text,
      day |-> d, hour |-> h, zone |-> z] :
        d \in {2, 3}, h \in {0, 9, 10, 23}, z \in IsoZones}
    \cup {[text |-> <<"0", "2", ".", "0", "1", ".", "2", "0", "2", "3">>, day |-> 0, hour |-> 0,
           zone |-> [text |-> <<>>, explicit |-> FALSE, minutes |-> 0]],
          [text |-> <<"0", "0", "0", "1", "-", "0", "1", "-", "0", "1", "T", "0", "0", ":", "0", "0", ":", "0", "0", "+", "1", "4", ":", "0", "0">>, day |-> 0, hour |-> 0,
           zone |-> [text |-> <<"+", "1", "4", ":", "0", "0">>, explicit |-> FALSE, minutes |-> 840]]}

\* the date elements of an Atom entry: absent, with text only, or with a
\* child element besides the text
AtomElements(text) == {NoElement, Element(text, 0), Element(text, 1)}

\* the other functions are called with their argument record
InitArgFn ==
    /\ in_form = 0
    /\ in_segs = <<>>
    /\ in_url = <<>>
    /\ in_cats = <<>>
    /\ \/ /\ fn = "determine_feed_type"
          /\ \E doc \in DetectDocs : in_arg = [doc |-> doc]
       \/ /\ fn = "parse_datetime"
          /\ \E host \in Hosts : \E date \in RfcInputs :
                in_arg = [host |-> host, date |-> date]
       \/ /\ fn = "parse_iso_datetime"
          /\ \E host \in Hosts : \E date \in IsoInputs : \E other \in IsoInputs :
                in_arg = [host |-> host, date |-> date, other |-> other]
       \/ /\ fn = "verarbeite_atom_entry"
          /\ \E published \in AtomElements( <<"P">> ) :
             \E updated \in AtomElements( <<"U">> ) :
             \E dc_date \in AtomElements( <<"D">> ) :
                in_arg = [published |-> published, updated |-> updated,
                          dc_date |-> dc_date]
       \/ /\ fn = "fold"
          /\ \E rules \in RuleTables : \E cats \in SeqsUpTo(FoldToks, MaxCats) :
                in_arg = [rules |-> rules, categories |-> cats]

InitFn ==
    /\ InitUrlFn \/ InitArgFn
    /\ fn_pc = "start"
    /\ out_cats = <<>>
    /\ out_norm = {}
    /\ out_val = <<>>
    /\ AggIdle
    /\ RunIdle
    /\ UiIdle

CallExtractCategories ==
    /\ fn = "extract_categories"
    /\ fn_pc = "start"
    /\ out_cats' = ExtractCategories(in_url)
    /\ fn_pc' = "extracted"
    /\ UNCHANGED <<fnIn, out_norm, out_val, aggVars, runVars, uiVars>>

CallNormalizeCategories ==
    /\ fn \in {"normalize_categories", "normalize_again"}
    /\ fn_pc = "start"
    /\ ~ NormalizeRaises(in_url)
    /\ out_norm' = NormalizeCategories(in_cats, in_url)
    /\ fn_pc' = "normalized"
    /\ UNCHANGED <<fnIn, out_cats, out_val, aggVars, runVars, uiVars>>

CallDetermineFeedType ==
    /\ fn = "determine_feed_type"
    /\ fn_pc = "start"
    /\ out_val' = DetermineFeedType(in_arg.doc)
    /\ fn_pc' = "detected"
    /\ UNCHANGED <<fnIn, out_cats, out_norm, aggVars, runVars, uiVars>>

\* list(normalized): the elements of the returned set in any order
RECURSIVE Orders(_)
Orders(S) ==
    IF S = {} THEN {<<>>}
    ELSE UNION {{<<x>> \o rest : rest \in Orders(S \ {x})} : x \in S}

\* the regions found by scanning the lower-cased URL path alone
PathRegions(url_path) ==
    {region \in Range(REGIONAL_LOCATIONS) : SearchRegion(region, url_path)}

\* the regions found by scanning the lower-cased raw tokens alone
TokenRegions(categories) ==
    {region \in Range(REGIONAL_LOCATIONS) :
        \E i \in DOMAIN categories : SearchRegion(region, LowerStr(categories[i]))}

\* normalize_categories of helpers.py, of appV3.py and of bck/appv2.py on
\* the same arguments: the regions each detects, and the list appV3 returns
CallNormalizeVariants ==
    /\ fn = "normalize_variants"
    /\ fn_pc = "start"
    /\ ~ NormalizeRaises(in_url)
    /\ out_norm' = NormalizeCategories(in_cats, in_url)
    /\ out_val' =
          [v3 |-> NormalizeCategoriesV3(in_cats, in_url),
           regions |-> StepTwoLoop({}, 1, UrlPathLower(in_url), in_cats),
           regions_v3 |-> StepTwoLoopV3({}, 1, UrlPathLower(in_url), in_cats),
           regions_bck |-> RegionsBck(UrlPathLower(in_url), in_cats),
           path |-> PathRegions(UrlPathLower(in_url)),
           tokens |-> TokenRegions(in_cats)]
    /\ fn_pc' = "variants"
    /\ UNCHANGED <<fnIn, out_cats, aggVars, runVars, uiVars>>

\* normalize_categories applied to its own result and the same URL
CallNormalizeAgain ==
    /\ fn = "normalize_again"
    /\ fn_pc = "normalized"
    /\ \E categories \in Orders(out_norm) :
          out_val' = NormalizeCategories(categories, in_url)
    /\ fn_pc' = "renormalized"
    /\ UNCHANGED <<fnIn, out_cats, out_norm, aggVars, runVars, uiVars>>

\* step 1 of normalize_categories run over a given rule table
CallFold ==
    /\ fn = "fold"
    /\ fn_pc = "start"
    /\ out_val' = FoldLoop(in_arg.rules, {}, in_arg.categories)
    /\ fn_pc' = "folded"
    /\ UNCHANGED <<fnIn, out_cats, out_norm, aggVars, runVars, uiVars>>

CallParseDatetime ==
    /\ fn = "parse_datetime"
    /\ fn_pc = "start"
    /\ out_val' = ParseDatetime(in_arg.date.text, in_arg.host)
    /\ fn_pc' = "parsed"
    /\ UNCHANGED <<fnIn, out_cats, out_norm, aggVars, runVars, uiVars>>

\* parse_iso_datetime is applied to two strings on the same host
CallParseIsoDatetime ==
    /\ fn = "parse_iso_datetime"
    /\ fn_pc = "start"
    /\ out_val' = <<ParseIsoDatetime(in_arg.date.text, in_arg.host),
                    ParseIsoDatetime(in_arg.other.text, in_arg.host)>>
    /\ fn_pc' = "parsed"
    /\ UNCHANGED <<fnIn, out_cats, out_norm, aggVars, runVars, uiVars>>

CallVerarbeiteAtomEntry ==
    /\ fn = "verarbeite_atom_entry"
    /\ fn_pc = "start"
    /\ out_val' = AtomPublicationDate(in_arg.published, in_arg.updated, in_arg.dc_date)
    /\ fn_pc' = "atom"
    /\ UNCHANGED <<fnIn, out_cats, out_norm, aggVars, runVars, uiVars>>

NextFn ==
    \/ CallExtractCategories
    \/ CallNormalizeCategories
    \/ CallNormalizeAgain
    \/ CallNormalizeVariants
    \/ CallDetermineFeedType
    \/ CallFold
    \/ CallParseDatetime
    \/ CallParseIsoDatetime
    \/ CallVerarbeiteAtomEntry

SpecFn == InitFn /\ [][NextFn]_vars

\* ----------------------------------------------------- appv2.py: add_feed

\* normalization_rules of appv2.py, in insertion order
normalization_rules == <<
    [key |-> <<"r", "e", "g", "i", "o", "n", "a", "l">>, synonyms |-> << <<"r", "e", "g", "i", "o", "n">>, <<"r", "e", "g", "i", "o", "n", "a", "l", "e", "s">>, <<"r", "e", "g", "i", "o", "n", "a", "l">> >>],
    [key |-> <<"w", "i", "r", "t", "s", "c", "h", "a", "f", "t">>, synonyms |-> << <<"e", "c", "o", "n", "o", "m", "y">>, <<"w", "i", "r", "t", "s", "c", "h", "a", "f", "t">> >>],
    [key |-> <<"p", "o", "l", "i", "t", "i", "k">>, synonyms |-> << <<"p", "o", "l", "i", "t", "i", "c", "s">>, <<"p", "o", "l", "i", "t", "i", "k">> >>],
    [key |-> <<"a", "u", "s", "l", "a", "n", "d">>, synonyms |-> << <<"i", "n", "t", "e", "r", "n", "a", "t", "i", "o", "n", "a", "l">>, <<"a", "u", "s", "l", "a", "n", "d">> >>],
    [key |-> <<"s", "p", "o", "r", "t">>, synonyms |-> << <<"s", "p", "o", "r", "t", "s">>, <<"s", "p", "o", "r", "t">> >>] >>

\* normalize_categories(categories) of appv2.py: a list with one element per
\* token, duplicates kept
NormalizeCategoriesV2(categories) ==
    [i \in DOMAIN categories |-> FoldIn(normalization_rules, LowerStr(categories[i]), 1)]

\* the raw text of a date element, '' when there is none
RawDate(date) == IF date = "missing" THEN "" ELSE date

\* extract_urls_from_rss of appv2.py: entries without a link are passed over
\* (feedparser gives title_detail with a base whenever the entry has a title)
RECURSIVE RssLoopV2(_, _)
RssLoopV2(articles, entries) ==
    IF entries = <<>> THEN articles
    ELSE RssLoopV2(
            IF Head(entries).link = Absent THEN articles
            ELSE Append(articles,
                    [link |-> Head(entries).link,
                     title |-> TextOr(Head(entries).title),
                     description |-> TextOr(Head(entries).description),
                     keywords |-> Head(entries).tags,
                     publication_date |-> RawDate(Head(entries).date),
                     news_title |-> TextOr(Head(entries).title)]),
            Tail(entries))

\* [kw.strip().lower() for kw in text.split(',')], [] for an empty text
KeywordList(text) ==
    LET split == SplitOn(text, ",")
    IN  IF text = <<>> THEN <<>>
        ELSE [i \in DOMAIN split |-> LowerStr(Strip(split[i]))]

\* extract_urls_from_sitemap of appv2.py: url elements without a loc are
\* passed over
RECURSIVE SitemapLoopV2(_, _)
SitemapLoopV2(urls, elems) ==
    IF elems = <<>> THEN urls
    ELSE SitemapLoopV2(
            IF Head(elems).link = Absent THEN urls
            ELSE Append(urls,
                    [loc |-> Head(elems).link,
                     keywords |-> IF Head(elems).news
                                  THEN KeywordList(TextOr(Head(elems).keywords))
                                  ELSE <<>>,
                     publication_date |-> RawDate(NewsDate(Head(elems))),
                     news_title |-> IF Head(elems).news THEN TextOr(Head(elems).title)
                                    ELSE <<>>]),
            Tail(elems))

\* the records of a feed: determine_feed_type, then the parser of that type;
\* each parser returns [] when anything raises
RecordsV2(doc) ==
    IF DetermineFeedType(doc) = "rss"
    THEN RssLoopV2(<<>>, FeedParse(doc).entries)
    ELSE IF doc.fetch # "ok" \/ doc.xml = "malformed" \/ doc.root # "urlset" THEN <<>>
    ELSE SitemapLoopV2(<<>>, doc.items)

\* the row of one record, with the columns derived from its URL and keywords
RowV2(feed_name, rec) ==
    [Feed |-> feed_name,
     URL |-> RecordUrl(rec),
     Title |-> IF "link" \in DOMAIN rec THEN rec.title ELSE rec.news_title,
     Description |-> IF "link" \in DOMAIN rec THEN rec.description ELSE <<>>,
     Keywords |-> JoinComma(rec.keywords),
     Publication_Date |-> rec.publication_date,
     News_Title |-> rec.news_title,
     Categories |-> ExtractCategories(RecordUrl(rec)),
     Normalized_Categories |-> NormalizeCategoriesV2(ExtractCategories(RecordUrl(rec))),
     Keywords_List |-> KeywordList(JoinComma(rec.keywords))]

RowsV2(feed_name, doc) ==
    [i \in DOMAIN RecordsV2(doc) |-> RowV2(feed_name, RecordsV2(doc)[i])]

\* every element of every Normalized_Categories list, in table order
RECURSIVE AllOccurrences(_)
AllOccurrences(rows) ==
    IF rows = <<>> THEN <<>>
    ELSE Head(rows).Normalized_Categories \o AllOccurrences(Tail(rows))

\* the keys of category_counts in insertion order
RECURSIVE FirstSeen(_, _)
FirstSeen(keys, occurrences) ==
    IF occurrences = <<>> THEN keys
    ELSE FirstSeen(IF Head(occurrences) \in Range(keys) THEN keys
                   ELSE Append(keys, Head(occurrences)),
                   Tail(occurrences))

\* category_counts[cat]: one for each element of a list that equals cat
CategoryCount(cat, rows) ==
    Cardinality({i \in DOMAIN AllOccurrences(rows) : AllOccurrences(rows)[i] = cat})

\* sorted(category_counts.items(), key=lambda x: x[1], reverse=True): stable
RECURSIVE SortedByCountDesc(_, _)
SortedByCountDesc(keys, rows) ==
    IF keys = <<>> THEN <<>>
    ELSE LET rest == SortedByCountDesc(Tail(keys), rows)
             k == Cardinality({i \in DOMAIN rest :
                     CategoryCount(rest[i], rows) > CategoryCount(Head(keys), rows)})
         IN  SubSeq(rest, 1, k) \o <<Head(keys)>> \o SubSeq(rest, k + 1, Len(rest))

\* ['All'] + unique_categories
DropdownOptions(rows) ==
    << <<"A", "l", "l">> >> \o SortedByCountDesc(FirstSeen(<<>>, AllOccurrences(rows)), rows)

\* the table and the feeds the notebook starts with
StartDocs == {
    Doc("ok", "wellformed", "rss", <<Item(<<"/", "r", "e", "g", "i", "o", "n", "/", "R", "e", "g", "i", "o", "n", "a", "l", "/", "a">>, "valid")>>),
    Doc("ok", "wellformed", "urlset", <<Item(U2, "valid")>>) }

\* what the URL of an added feed serves
AddDocs == {
    Doc("neterr", "wellformed", "rss", <<>>),
    Doc("ok", "wellformed", "rss",
        <<[Item(U1, "valid") EXCEPT !.title = <<"T", "1">>, !.tags = << <<"S", "p", "o", "r", "t">>, <<"K", "o", "e", "l", "n">> >>],
          Item(<<"/", "s", "p", "o", "r", "t", "/", "b">>, "missing")>>),
    Doc("ok", "wellformed", "urlset",
        <<[Item(<<"/", "P", "o", "l", "i", "t", "i", "k", "/", "c">>, "valid") EXCEPT !.keywords = <<"S", "p", "o", "r", "t", ",", " ", "K", "o", "e", "l", "n", " ">>],
          Item(Absent, "valid")>>) }

\* the values of new_feed_name_widget and new_feed_url_widget
NameValues == { <<>>, <<" ">>, <<" ", "A">>, <<"B">>, <<" ", "B", " ">>, <<"C">> }
UrlValues == { <<>>, <<" ">>, <<" ", "h", "t", "t", "p", ":", "/", "/", "b", ".", "d", "e", "/", "f", "e", "e", "d", " ">> }

\* the notebook has run down to the widgets: feeds holds one feed, df its
\* rows, the dropdown the categories counted from df
InitAdd ==
    /\ RunIdle
    /\ fn = "add_feed"
    /\ in_form = 0
    /\ in_segs = <<>>
    /\ in_url = <<>>
    /\ in_cats = <<>>
    /\ fn_pc = "idle"
    /\ out_cats = <<>>
    /\ out_norm = {}
    /\ in_arg = <<>>
    /\ out_val = <<>>
    /\ \E doc \in StartDocs :
          /\ feeds = <<[name |-> <<"A">>, doc |-> doc]>>
          /\ all_articles = RowsV2(<<"A">>, doc)
          /\ category_dropdown = DropdownOptions(RowsV2(<<"A">>, doc))
    /\ idx = 0
    /\ pc = "edit"
    /\ feed_type = "none"
    /\ parsed = <<>>
    /\ log_messages = <<>>
    /\ result = [status |-> "none"]

\* the user fills in the two text widgets; doc is what the URL typed serves
EditWidgets ==
    /\ pc = "edit"
    /\ \E name \in NameValues : \E url \in UrlValues : \E doc \in AddDocs :
          in_arg' = [name |-> name, url |-> url, doc |-> doc]
    /\ pc' = "ready"
    /\ UNCHANGED <<fn, in_form, in_segs, in_url, in_cats, fn_pc, out_cats, out_norm,
                   out_val, feeds, idx, feed_type, parsed, all_articles, log_messages,
                   result, runVars, uiVars>>

\* add_feed(b): the click on add_feed_button
AddFeed ==
    /\ pc = "ready"
    /\ LET new_name == Strip(in_arg.name)
           new_url == Strip(in_arg.url)
       IN  IF new_name # <<>> /\ new_url # <<>>
           THEN IF \E i \in DOMAIN feeds : feeds[i].name = new_name
                THEN UNCHANGED <<feeds, all_articles, category_dropdown>>
                ELSE /\ feeds' = Append(feeds, [name |-> new_name, doc |-> in_arg.doc])
                     /\ all_articles' = all_articles \o RowsV2(new_name, in_arg.doc)
                     /\ category_dropdown' = DropdownOptions(all_articles')
           ELSE UNCHANGED <<feeds, all_articles, category_dropdown>>
    /\ pc' = "edit"
    /\ UNCHANGED <<fnVars, idx, feed_type, parsed, log_messages, result, runVars>>

NextAdd == EditWidgets \/ AddFeed

SpecAdd == InitAdd /\ [][NextAdd]_vars

\* ------------------------------------------- claims on the pure functions

\* the lower-cased path the URL was built with (host, query and fragment are
\* no part of it)
BuiltPath == LowerStr(JoinSlash(in_segs))

\* a region name of the catalog matches the built path or a raw token
CatalogMatch(r) ==
    \/ SearchRegion(r, BuiltPath)
    \/ \E i \in DOMAIN in_cats : SearchRegion(r, LowerStr(in_cats[i]))

\* C4: every region name of the catalog that matches a raw category token or
\* the URL path is an element of the result of normalize_categories.
C4_MatchedRegionInOutput ==
    fn_pc = "normalized" =>
        \A r \in Range(REGIONAL_LOCATIONS) : CatalogMatch(r) => r \in out_norm

\* C4 witness: a region found inside a raw token, and not in the path, is
\* in the result
C4_Witness ==
    /\ fn_pc = "normalized"
    /\ \E i \in DOMAIN in_cats : SearchRegion(<<"h", "a", "m", "b", "u", "r", "g">>, LowerStr(in_cats[i]))
    /\ ~ SearchRegion(<<"h", "a", "m", "b", "u", "r", "g">>, BuiltPath)
    /\ <<"h", "a", "m", "b", "u", "r", "g">> \in out_norm

\* C5: a path holding the compound name sachsen-anhalt, with "sachsen" neither
\* a segment nor a raw token of its own, does not yield the region "sachsen".
C5_NoConstituentOfCompound ==
    ( /\ fn_pc = "normalized"
      /\ \E i \in DOMAIN in_segs : LowerStr(in_segs[i].s) = <<"s", "a", "c", "h", "s", "e", "n", "-", "a", "n", "h", "a", "l", "t">>
      /\ \A i \in DOMAIN in_segs : LowerStr(in_segs[i].s) # <<"s", "a", "c", "h", "s", "e", "n">>
      /\ \A i \in DOMAIN in_cats : LowerStr(in_cats[i]) # <<"s", "a", "c", "h", "s", "e", "n">> )
    => <<"s", "a", "c", "h", "s", "e", "n">> \notin out_norm

\* the rules whose synonym list holds the case-folded token
RulesHolding(tok) ==
    {k \in DOMAIN NORMALIZATION_RULES :
        LowerStr(tok) \in Range(NORMALIZATION_RULES[k].synonyms)}

\* C6: a raw token that is a synonym of a canonical name, and not that name
\* itself, is absent from the result in its raw and in its case-folded form;
\* the canonical name is there instead.
C6_NoSynonymInOutput ==
    fn_pc = "normalized" =>
        \A i \in DOMAIN in_cats : \A k \in RulesHolding(in_cats[i]) :
            LowerStr(in_cats[i]) # NORMALIZATION_RULES[k].key =>
                /\ LowerStr(in_cats[i]) \notin out_norm
                /\ in_cats[i] \notin out_norm
                /\ NORMALIZATION_RULES[k].key \in out_norm

\* C6 witness: the synonym "Economy" was folded to "wirtschaft"
C6_Witness ==
    /\ fn_pc = "normalized"
    /\ \E i \in DOMAIN in_cats : in_cats[i] = <<"E", "c", "o", "n", "o", "m", "y">>
    /\ <<"w", "i", "r", "t", "s", "c", "h", "a", "f", "t">> \in out_norm

\* phase 1 of one token, stated from the rule table
Folded(tok) ==
    IF RulesHolding(tok) = {} THEN LowerStr(tok)
    ELSE NORMALIZATION_RULES[CHOOSE k \in RulesHolding(tok) :
                                \A j \in RulesHolding(tok) : k <= j].key

\* C7: normalize_categories of helpers.py returns exactly the folded tokens
\* together with the detected regions; "regional" stays beside a region.
C7_UnionOfPhases ==
    fn_pc = "normalized" =>
        out_norm = {Folded(in_cats[i]) : i \in DOMAIN in_cats}
                   \cup {r \in Range(REGIONAL_LOCATIONS) : CatalogMatch(r)}

\* C7 witness: the generic tag and a detected region are both returned
C7_Witness ==
    /\ fn_pc = "normalized"
    /\ <<"r", "e", "g", "i", "o", "n", "a", "l">> \in out_norm
    /\ \E r \in Range(REGIONAL_LOCATIONS) : r \in out_norm /\ CatalogMatch(r)

\* the segments the URL was built from, the empty ones left out
BuiltSegments == SelectSeq(in_segs, LAMBDA seg : seg.s # <<>>)

\* C8: the segments extract_categories must return: all but the last non-empty
\* one, the boilerplate ones left out, in path order and unchanged
ExpectedCategories ==
    LET kept == SelectSeq(SubSeq(BuiltSegments, 1, Len(BuiltSegments) - 1),
                          LAMBDA seg : ~ seg.boiler)
    IN  [i \in DOMAIN kept |-> kept[i].s]

\* C8: extract_categories(url) is exactly the non-empty path segments without
\* the final one and without the boilerplate ones, in order, case preserved;
\* zero or one segment gives the empty sequence.
C8_ExtractExact ==
    fn_pc = "extracted" =>
        /\ out_cats = ExpectedCategories
        /\ Len(BuiltSegments) <= 1 => out_cats = <<>>

\* C8 witness: a final segment that is no boilerplate was dropped, a
\* boilerplate segment was removed, and a mixed-case segment survived
C8_Witness ==
    /\ fn_pc = "extracted"
    /\ Len(in_segs) = 3
    /\ in_segs[1].s = <<"P", "o", "l", "i", "t", "i", "k">>
    /\ in_segs[2].boiler
    /\ in_segs[3].s = <<"A", "r", "t", "i", "c", "l", "e", "1">>
    /\ out_cats = << <<"P", "o", "l", "i", "t", "i", "k">> >>

\* -------------------------------------------- claims on determine_feed_type

\* the document handed to determine_feed_type parses without a bozo condition
ParsesClean == in_arg.doc.fetch = "ok" /\ in_arg.doc.xml = "wellformed"

\* the entries feedparser reads from the document
DocEntries == IF in_arg.doc.root = "rss" THEN in_arg.doc.items ELSE <<>>

\* C11: for a feed that parses without a bozo condition, determine_feed_type
\* returns 'rss' exactly when at least one parsed entry exposes a link, and
\* 'sitemap' otherwise.
C11_RssIffSomeLink ==
    (fn_pc = "detected" /\ ParsesClean) =>
        (out_val = "rss" <=> \E i \in DOMAIN DocEntries : DocEntries[i].link # Absent)

\* C12: determine_feed_type returns 'rss' or 'sitemap' for every outcome of
\* fetching and parsing, 'sitemap' whenever the parser sets bozo (also when
\* entries with links were parsed), and 'sitemap' whenever fetching or
\* parsing raises.
C12_DetectTotal ==
    fn_pc = "detected" =>
        /\ out_val \in {"rss", "sitemap"}
        /\ (in_arg.doc.fetch = "neterr" \/ in_arg.doc.xml = "malformed")
              => out_val = "sitemap"
        /\ in_arg.doc.fetch = "raises" => out_val = "sitemap"

\* C12 witness: malformed XML from which an entry with a link was read
C12_Witness ==
    /\ fn_pc = "detected"
    /\ in_arg.doc.fetch = "ok"
    /\ in_arg.doc.xml = "malformed"
    /\ in_arg.doc.root = "rss"
    /\ Len(in_arg.doc.items) > 0
    /\ in_arg.doc.items[1].link # Absent
    /\ out_val = "sitemap"

\* C12 witness of the other case: feedparser.parse raised
C12_WitnessRaised ==
    /\ fn_pc = "detected"
    /\ in_arg.doc.fetch = "raises"
    /\ out_val = "sitemap"

\* ---------------------------------------------- claims on synonym folding

\* the rules of a table whose synonym lists hold the token
HoldingIn(rules, tok) ==
    {k \in DOMAIN rules :
        \E j \in DOMAIN rules[k].synonyms :
            LowerStr(rules[k].synonyms[j]) = LowerStr(tok)}

\* the canonical name declared first among the rules holding the token
FirstDeclared(rules, tok) ==
    IF HoldingIn(rules, tok) = {} THEN LowerStr(tok)
    ELSE rules[CHOOSE k \in HoldingIn(rules, tok) :
                  \A h \in HoldingIn(rules, tok) : k <= h].key

\* C13: for any synonym mapping, a token in the synonym lists of two canonical
\* names is emitted as the name declared first and never as a later one, and
\* each token contributes exactly one element to phase 1.
C13_FirstDeclaredWins ==
    fn_pc = "folded" =>
        LET rules == in_arg.rules
            cats == in_arg.categories
        IN  /\ out_val = {FirstDeclared(rules, cats[i]) : i \in DOMAIN cats}
            /\ Cardinality(out_val) <= Len(cats)
            /\ Len(cats) = 1 =>
                  /\ Cardinality(out_val) = 1
                  /\ \A k \in HoldingIn(rules, cats[1]) :
                        rules[k].key \in out_val =>
                            \A h \in HoldingIn(rules, cats[1]) : k <= h

\* C13 witness: a token held by two rules was folded to the first one's key
C13_Witness ==
    /\ fn_pc = "folded"
    /\ Len(in_arg.categories) = 1
    /\ Cardinality(HoldingIn(in_arg.rules, in_arg.categories[1])) >= 2
    /\ out_val = {in_arg.rules[1].key}

\* -------------------------------------------------- claims on idempotence

\* C14: every canonical name folds to itself, a synonym and its canonical
\* name fold to the same name, and normalize_categories applied to its own
\* result with the same URL returns the same set.
C14_Idempotent ==
    fn_pc = "renormalized" =>
        /\ \A k \in DOMAIN NORMALIZATION_RULES :
              LET rule == NORMALIZATION_RULES[k]
              IN  /\ StepOne({}, rule.key) = {rule.key}
                  /\ \A j \in DOMAIN rule.synonyms :
                        StepOne({}, rule.synonyms[j]) = StepOne({}, rule.key)
        /\ out_val = out_norm

\* C14 witness: the first result holds a canonical name that came from a
\* synonym and a detected region, and the second result is the same set
C14_Witness ==
    /\ fn_pc = "renormalized"
    /\ \E i \in DOMAIN in_cats : in_cats[i] = <<"N", "R", "W">>
    /\ <<"n", "o", "r", "d", "r", "h", "e", "i", "n", "-", "w", "e", "s", "t", "f", "a", "l", "e", "n">> \in out_norm
    /\ \E r \in Range(REGIONAL_LOCATIONS) : r # <<"n", "o", "r", "d", "r", "h", "e", "i", "n", "-", "w", "e", "s", "t", "f", "a", "l", "e", "n">> /\ r \in out_norm
    /\ out_val = out_norm

\* ------------------------------------------------ claims on the date parsers

\* C15: parse_datetime returns, for a string of the exact form
\* '<weekday>, <day> <month> <year> <HH:MM:SS> GMT', the naive timestamp with
\* the same wall-clock fields whatever the local time zone of the host, and
\* returns null without raising for every other string.
C15_RfcWallClock ==
    (fn = "parse_datetime" /\ fn_pc = "parsed") =>
        IF in_arg.date.exact
        THEN out_val = Parsed("timestamp", in_arg.date.wall)
        ELSE out_val = Parsed("null", NoDateTime)

\* the instant an ISO input names, in minutes of January 2023 UTC
Instant(date) == (date.day * 24 + date.hour) * 60 - date.zone.minutes

\* C16: parse_iso_datetime gives the same timestamp for a string with the
\* suffix Z and the same string with +00:00, and the same timestamp for two
\* strings that name one instant with different explicit offsets.
C16_IsoSameInstant ==
    (fn = "parse_iso_datetime" /\ fn_pc = "parsed") =>
        LET a == in_arg.date
            b == in_arg.other
        IN  /\ (/\ a.zone.text = <<"Z">> /\ b.zone.text = <<"+", "0", "0", ":", "0", "0">>
                /\ a.day = b.day /\ a.hour = b.hour)
                  => (out_val[1] = out_val[2] /\ out_val[1].kind = "timestamp")
            /\ (a.zone.explicit /\ b.zone.explicit /\ Instant(a) = Instant(b))
                  => (out_val[1] = out_val[2] /\ out_val[1].kind = "timestamp")

\* C16 witness: midnight at +01:00 and 23:00 Z of the day before are parsed
\* to one timestamp
C16_Witness ==
    /\ fn = "parse_iso_datetime"
    /\ fn_pc = "parsed"
    /\ in_arg.date.text = <<"2", "0", "2", "3", "-", "0", "1", "-", "0", "3", "T", "0", "0", ":", "0", "0", ":", "0", "0", "+", "0", "1", ":", "0", "0">>
    /\ in_arg.other.text = <<"2", "0", "2", "3", "-", "0", "1", "-", "0", "2", "T", "2", "3", ":", "0", "0", ":", "0", "0", "Z">>
    /\ out_val[1] = Parsed("timestamp", DateTime(2023, 1, 2, 23, 0, 0))
    /\ out_val[2] = out_val[1]

\* C16 witness of the other case: Z and +00:00
C16_WitnessZ ==
    /\ fn = "parse_iso_datetime"
    /\ fn_pc = "parsed"
    /\ in_arg.date.text = <<"2", "0", "2", "3", "-", "0", "1", "-", "0", "2", "T", "1", "0", ":", "0", "0", ":", "0", "0", "Z">>
    /\ in_arg.other.text = <<"2", "0", "2", "3", "-", "0", "1", "-", "0", "2", "T", "1", "0", ":", "0", "0", ":", "0", "0", "+", "0", "0", ":", "0", "0">>
    /\ out_val[1] = Parsed("timestamp", DateTime(2023, 1, 2, 10, 0, 0))
    /\ out_val[2] = out_val[1]

\* --------------------------------------- claims on records, rows and dates

\* the elements the parser of a source loops over
Iterated(doc) ==
    IF DetermineFeedType(doc) = "rss" THEN FeedParse(doc).entries
    ELSE IF doc.fetch = "ok" /\ doc.xml = "wellformed" /\ doc.root = "urlset"
    THEN doc.items
    ELSE <<>>

\* the date string the parser reads from an element
DateOf(doc, item) ==
    IF DetermineFeedType(doc) = "rss" THEN item.date ELSE NewsDate(item)

\* a row of the named source with the URL of the record
RowsOf(feed_name, rec) ==
    {r \in DOMAIN all_articles :
        /\ all_articles[r].Feed = feed_name
        /\ all_articles[r].URL = RecordUrl(rec)}

\* C17: an element whose publication date is missing or cannot be parsed is
\* never dropped and never ends the run: its record and its row are there
\* with a null date, and the later elements are processed.
C17_NullDateKept ==
    \A i \in DOMAIN parsed :
        LET doc == feeds[i].doc
            items == Iterated(doc)
        IN  \A k \in DOMAIN items :
                DateOf(doc, items[k]) # "valid" =>
                    /\ k \in DOMAIN parsed[i]
                    /\ parsed[i][k].publication_date = "null"
                    /\ i < idx =>
                          \E r \in RowsOf(feeds[i].name, parsed[i][k]) :
                              all_articles[r].Publication_Date = "null"

\* a URL that names no path: empty, without text, or refused by urlparse
Unparseable(url) == url \in {<<>>, None} \/ UrlParse(url).raises

\* C18: a record whose URL cannot be parsed fails neither the record nor the
\* run: extract_categories gives the empty sequence, and the row is emitted
\* with empty raw categories.
C18_BadUrlKept ==
    \A i \in DOMAIN parsed : \A k \in DOMAIN parsed[i] :
        Unparseable(RecordUrl(parsed[i][k])) =>
            /\ ExtractCategories(RecordUrl(parsed[i][k])) = <<>>
            /\ (i < idx \/ pc = "done") =>
                  \E r \in RowsOf(feeds[i].name, parsed[i][k]) :
                      all_articles[r].Categories = <<>>

\* the parsed records of sources i..Len(parsed), source by source
RECURSIVE RecordsFlat(_)
RecordsFlat(i) ==
    IF i > Len(parsed) THEN <<>> ELSE parsed[i] \o RecordsFlat(i + 1)

\* C19: in every row Keywords is the comma-joined keyword list of
\* its record, the empty string when there are no keywords, for RSS rows as
\* for sitemap rows.
C19_KeywordsJoined ==
    pc = "detect" =>
        /\ Len(all_articles) = Len(RecordsFlat(1))
        /\ \A k \in DOMAIN all_articles :
              /\ all_articles[k].Keywords = JoinComma(RecordsFlat(1)[k].keywords)
              /\ RecordsFlat(1)[k].keywords = <<>> => all_articles[k].Keywords = <<>>

\* C20: the record of a url element without a news block has the date of its
\* lastmod (null when that is missing) and an empty title and keyword list;
\* the record of a url element with a news block has the block's date.
C20_LastmodFallback ==
    \A i \in DOMAIN parsed :
        LET doc == feeds[i].doc
        IN  (doc.fetch = "ok" /\ doc.xml = "wellformed" /\ doc.root = "urlset") =>
                \A k \in DOMAIN parsed[i] :
                    IF doc.items[k].news
                    THEN parsed[i][k].publication_date = ParsedDate(doc.items[k].date)
                    ELSE /\ parsed[i][k].publication_date = ParsedDate(doc.items[k].lastmod)
                         /\ parsed[i][k].news_title = <<>>
                         /\ parsed[i][k].keywords = <<>>

\* ------------------------------------------------ claims on the Atom parser

\* C21: the raw publication date of an Atom entry is the text of the first
\* element present among published, updated and dc:date, and it is absent
\* only when none of the three is present.
C21_FirstPresentDate ==
    fn_pc = "atom" =>
        /\ in_arg.published.present => out_val = in_arg.published.text
        /\ (~ in_arg.published.present /\ in_arg.updated.present)
              => out_val = in_arg.updated.text
        /\ (~ in_arg.published.present /\ ~ in_arg.updated.present
            /\ in_arg.dc_date.present) => out_val = in_arg.dc_date.text
        /\ out_val = None =>
              (~ in_arg.published.present /\ ~ in_arg.updated.present
               /\ ~ in_arg.dc_date.present)

\* --------------------------------------------------- claims on repeated calls

\* C22: within one run the sources are processed one at a time in
\* configuration order, and each source is fetched at most once, so its type
\* and its records come from one response.
C22_OneFetchPerSource ==
    pc # "idle" =>
        /\ \A k \in DOMAIN log_messages : log_messages[k].feed = feeds[k].name
        /\ Len(log_messages) \in {idx - 1, idx}
        /\ \A i \in DOMAIN fetched :
              /\ Len(fetched[i]) <= 1
              /\ i > idx => fetched[i] = <<>>

\* the calls k and l were served from feed contents that did not change from
\* the oldest response used by either to the end of the later call
SameContents(k, l) ==
    Min(served[k].vfrom, served[l].vfrom) = served[l].vto

\* C23: two calls of get_all_articles over unchanged feed contents give the
\* same outcome: the same rows in the same order with the same field values
\* and the same log; nothing a call leaves behind changes the next result.
C23_Deterministic ==
    \A k \in DOMAIN served : \A l \in DOMAIN served :
        (k < l /\ SameContents(k, l)) => served[k].result = served[l].result

\* the function body ran twice on the same contents (the first result had
\* expired) and returned the same non-empty table both times
C23_Witness ==
    /\ Len(served) >= 2
    /\ ~ served[1].cached /\ ~ served[2].cached
    /\ SameContents(1, 2)
    /\ served[1].result.status = "returned"
    /\ served[1].result.rows # <<>>
    /\ served[2].result = served[1].result

\* ------------------------------------------------- claims on the output rows

\* C24: in every row Categories is extract_categories of the row's own URL and
\* Normalized_Categories is normalize_categories of those Categories and that
\* same URL.
C24_CategoriesOfOwnUrl ==
    \A r \in DOMAIN all_articles :
        /\ all_articles[r].Categories = ExtractCategories(all_articles[r].URL)
        /\ all_articles[r].Normalized_Categories =
               NormalizeCategories(all_articles[r].Categories, all_articles[r].URL)

\* two rows with different URLs and different categories are in the table
C24_Witness ==
    \E r \in DOMAIN all_articles : \E q \in DOMAIN all_articles :
        /\ all_articles[r].URL # all_articles[q].URL
        /\ all_articles[r].Categories # all_articles[q].Categories
        /\ all_articles[r].Normalized_Categories # all_articles[q].Normalized_Categories
        /\ all_articles[r].Categories # <<>>

\* the fetch of this response fails, or parsing it raises
Failing(doc) ==
    \/ doc.fetch # "ok"
    \/ doc.xml # "wellformed"
    \/ \E k \in DOMAIN doc.items : doc.items[k].date = "overflow"

\* the sources the current run has finished with
Processed == {i \in DOMAIN feeds : i < idx \/ (i = idx /\ pc = "done")}

\* C25: there is no retry. After a fetch or a parse of a source has failed
\* the source is not fetched again in that run and has no row in the run's
\* table; a result served from the cache is the result served before it; a
\* source goes unfetched in a run only while its cached values are within
\* the ttl.
C25_NoRetry ==
    /\ \A i \in DOMAIN fetched : \A k \in DOMAIN fetched[i] :
          Failing(fetched[i][k]) => k = Len(fetched[i])
    /\ pc # "idle" =>
          \A i \in Processed :
              (\E k \in DOMAIN fetched[i] : Failing(fetched[i][k])) =>
                  \A r \in DOMAIN all_articles : all_articles[r].Feed # feeds[i].name
    /\ \A l \in DOMAIN served :
          (l > 1 /\ served[l].cached) => served[l].result = served[l - 1].result
    /\ pc # "idle" =>
          \A i \in Processed :
              fetched[i] = <<>> =>
                  /\ Valid(cache.type[i])
                  /\ Valid(cache.rss[i]) \/ Valid(cache.sitemap[i])

\* ----------------------- claims on the variants of normalize_categories

\* some raw token is, lower-cased, a synonym of "regional"
FoldsToRegional(categories) ==
    \E i \in DOMAIN categories :
        LowerStr(categories[i]) \in { <<"r", "e", "g", "i", "o", "n">>, <<"r", "e", "g", "i", "o", "n", "a", "l", "e", "s">>, <<"r", "e", "g", "i", "o", "n", "a", "l">> }

\* C26: appV3's normalize_categories returns "regional" exactly when a raw
\* token folds to "regional" and no catalog region is detected; every other
\* element of step 1 and every detected region is returned.
C26_RegionalDropped ==
    fn_pc = "variants" =>
        /\ <<"r", "e", "g", "i", "o", "n", "a", "l">> \in out_val.v3
              <=> (FoldsToRegional(in_cats) /\ out_val.regions_v3 = {})
        /\ \A i \in DOMAIN in_cats :
              LET element == FoldIn(NORMALIZATION_RULES_V3, LowerStr(in_cats[i]), 1)
              IN  element # <<"r", "e", "g", "i", "o", "n", "a", "l">> => element \in out_val.v3
        /\ out_val.regions_v3 \subseteq out_val.v3

\* a token folds to "regional", a region is detected, and the result holds
\* the region but not "regional"
C26_Witness ==
    /\ fn_pc = "variants"
    /\ FoldsToRegional(in_cats)
    /\ out_val.regions_v3 # {}
    /\ <<"r", "e", "g", "i", "o", "n", "a", "l">> \notin out_val.v3
    /\ out_val.regions_v3 \subseteq out_val.v3

\* C27: when the raw tokens are extract_categories of the same URL, every
\* region found by scanning the tokens is found by scanning the lower-cased
\* URL path.
C27_PathDominatesTokens ==
    (fn_pc = "variants" /\ in_cats = ExtractCategories(in_url)) =>
        out_val.tokens \subseteq out_val.path

\* the tokens of the URL name a region, and the path names one more
C27_Witness ==
    /\ fn_pc = "variants"
    /\ in_cats = ExtractCategories(in_url)
    /\ out_val.tokens # {}
    /\ out_val.path # out_val.tokens

Subjects(url, categories) ==
    {UrlPathLower(url)} \cup {LowerStr(categories[i]) : i \in DOMAIN categories}

\* the places of s where the name stands between two word boundaries
BoundedAt(region, s) ==
    {p \in 1..(Len(s) - Len(region) + 1) :
        /\ SubSeq(s, p, p + Len(region) - 1) = region
        /\ ~ WordAt(s, p - 1)
        /\ ~ WordAt(s, p + Len(region))}

\* a hyphen stands directly before or directly after the name at place p
HyphenAdjacent(region, s, p) ==
    \/ (p - 1 \in DOMAIN s /\ s[p - 1] = "-")
    \/ (p + Len(region) \in DOMAIN s /\ s[p + Len(region)] = "-")

ArticleCount(cat, rows) ==
    Cardinality({r \in DOMAIN rows : cat \in Range(rows[r].Normalized_Categories)})

\* add_feed does not add: the name or the URL is empty after trimming, or
\* the name is already in feeds
Refused ==
    \/ Strip(in_arg.name) = <<>>
    \/ Strip(in_arg.url) = <<>>
    \/ \E i \in DOMAIN feeds : feeds[i].name = Strip(in_arg.name)

\* what a click on the button leaves behind
AddFeedEffect ==
    IF Refused
    THEN feeds' = feeds /\ all_articles' = all_articles
    ELSE /\ Len(feeds') = Len(feeds) + 1
         /\ SubSeq(feeds', 1, Len(feeds)) = feeds
         /\ feeds'[Len(feeds')].name = Strip(in_arg.name)
         /\ Len(all_articles') >= Len(all_articles)
         /\ SubSeq(all_articles', 1, Len(all_articles)) = all_articles
         /\ \A r \in (Len(all_articles) + 1)..Len(all_articles') :
               all_articles'[r].Feed = Strip(in_arg.name)
         /\ category_dropdown'[1] = <<"A", "l", "l">>
         /\ LET options == Tail(category_dropdown')
            IN  /\ Range(options) =
                       UNION {Range(all_articles'[r].Normalized_Categories) :
                                 r \in DOMAIN all_articles'}
                /\ \A i \in DOMAIN options : \A j \in DOMAIN options :
                      i < j =>
                          /\ options[i] # options[j]
                          /\ ArticleCount(options[i], all_articles')
                                 >= ArticleCount(options[j], all_articles')

\* C30: add_feed with a name already in feeds, or with a name or URL empty
\* after trimming, leaves feeds and the table as they are; otherwise it
\* inserts one feeds entry, appends only rows of the new feed, and sets the
\* dropdown options to 'All' followed by every normalized category of the
\* table in descending order of the number of articles.
C30_AddFeedFrame == [][(pc = "ready" /\ pc' = "edit") => AddFeedEffect]_vars

====
